---- MODULE Spec2Model ----
(***************************************************************************)
(* Request orchestration of the pyvs speech server: the per-device gate    *)
(* gpu0_lock around the GPU-resident models (services/tts_service.py,      *)
(* services/chatterbox_service.py, services/clearvoice_service.py), the    *)
(* lazily loaded model singletons, the validation in front of them, the    *)
(* streaming generators of the routes, and the TTL + capacity bounded      *)
(* cache of generated audio (routes/tts.py) with the history that reads it *)
(* (routes/history.py).  One OS thread serves one HTTP request; a thread   *)
(* is modelled by its position pc[t] inside the handler it is running.     *)
(***************************************************************************)
EXTENDS Integers, Sequences, FiniteSets, TLC

(* ------------------------------ bounds -------------------------------- *)
\* Requests the server accepts in one behaviour.
MaxRequests == 2
\* Requests accepted in one behaviour of the locks' specification.
MaxLockRequests == 2
\* Requests accepted in one behaviour of the cache's specification.
MaxCacheRequests == 4
\* Requests accepted in one behaviour of the streaming specification.
MaxStreamRequests == 2
\* Requests accepted in one behaviour of the validation specification.
MaxCheckedRequests == 2
\* Requests accepted in one behaviour of the identifier specification.
MaxLookupRequests == 2
\* Requests accepted in one behaviour of the liveness specification.
MaxLiveRequests == 2
\* Largest number of dialogue segments / batch texts in one request.
MaxItems == 2
\* Longest waveform a model returns, in samples.
MaxSamples == 3
\* Most elements under the <speak> root of a document.
MaxNodes == 3
\* Most fields of a request body that carry a generation parameter.
MaxFields == 2
\* Requests accepted in one behaviour of the dialogue specification.
MaxDialogueRequests == 2
\* Requests accepted in one behaviour of the reference-audio specification.
MaxRefRequests == 2
\* Requests accepted in one behaviour of the history specification.
MaxHistoryRequests == 4
\* Last instant of the wall clock.
MaxClock == 2
\* config.py sets MAX_CACHED_AUDIO = 100; the model scales the capacity down.
MAX_CACHED_AUDIO == 2
\* config.py sets AUDIO_CACHE_TTL_SECONDS = 3600; scaled to clock ticks.
AUDIO_CACHE_TTL_SECONDS == 1
\* config.py sets MAX_HISTORY_ITEMS = 50; scaled down.
MAX_HISTORY == 2

(* ------------------------- program constants -------------------------- *)
\* from_pretrained calls in TTSService.load_models: tokenizer, clone,
\* custom, design and, with TTS_FAST_MODEL_ENABLED, the two 0.6B models.
NumTTSModels == 6
\* from_pretrained calls in ChatterboxService.load_model.
NumCBModels == 1

\* Two request threads of the threaded Flask server (app.run(threaded=True)).
Threads == {"t1", "t2"}
None == "free"
JobIds == 1 .. MaxCacheRequests

TTSKinds == {"clone", "custom", "design",
             "clone_stream", "custom_stream", "design_stream", "dialogue"}
CBKinds == {"cb_generate", "cb_stream", "cb_batch"}
GateKinds == TTSKinds \cup CBKinds
StreamKinds == {"clone_stream", "custom_stream", "design_stream", "cb_stream"}
Services == {"tts", "cb", "cv"}

(* ------------------------------ audio --------------------------------- *)
\* A float sample is kept as an integer count of halves: 1 is 0.5, -3 is
\* -1.5 (outside [-1, 1], as a model or the post-processing may return).
\* The i-th sample of every waveform is SampleAt(i), so that no two samples
\* of a waveform are equal.
SampleAt(i) == 2 * i - 5

Wave(n) == [i \in 1 .. n |-> SampleAt(i)]

\* Sample rates, scaled: 10 stands for a rate whose 100 ms hold one sample.
Rates == {10, 20}

\* What a model call may return: (wavs[0], sr).
Outputs == {[wav |-> Wave(n), sr |-> r] : n \in 0 .. MaxSamples, r \in Rates}

\* One fixed output, for the specifications that do not look at the audio.
OneOutput == {[wav |-> Wave(1), sr |-> 10]}

\* Two outputs that differ in waveform and in rate.
TwoOutputs == {[wav |-> Wave(1), sr |-> 10], [wav |-> Wave(2), sr |-> 20]}

NoAudio == [wav |-> << >>, sr |-> 0]

RECURSIVE Concat(_)
\* np.concatenate(all_chunks)
Concat(chunks) ==
    IF chunks = << >> THEN << >> ELSE Head(chunks) \o Concat(Tail(chunks))

VARIABLES
    pc,               \* position of each thread in its handler
    req,              \* the request each thread is serving
    left,             \* dialogue segments / batch texts still to generate
    removed,          \* `removed` / `items` of delete_history_item / clear_history
    load_i,           \* from_pretrained calls completed by a loading thread
    since_cond,       \* what happened since the thread built its conditioning
    put_now,          \* _cache_audio's local `now`
    job,              \* the job id of the request (uuid4)
    got,              \* whether get_cached_audio returned an entry
    raised,           \* where the exception the thread is unwinding came from
    audio,            \* (wav, sr) the service method has produced so far
    all_chunks,       \* all_chunks of a streaming route's generator
    out,              \* what a streaming response has yielded so far
    calls,            \* model calls made for the request
    entry,            \* (wav, sr) that get_cached_audio returned
    gpu0_lock,        \* services/gpu_lock.py gpu0_lock: owner or None
    model_lock,       \* ClearVoiceService._model_lock: owner or None
    audio_cache_lock, \* routes/tts.py _audio_cache_lock: owner or None
    history_lock,     \* routes/history.py _history_lock: owner or None
    loaded,           \* _models_loaded / _model_loaded of each service
    loads,            \* completed runs of each service's loading body
    generated_audio,  \* routes/tts.py _generated_audio, in OrderedDict order
    made,             \* (wav, sr) handed to _cache_audio under each job id
    history,          \* routes/history.py _history, oldest item first
    history_dir,      \* audio ids with a file <audio_id>.wav in get_history_dir()
    clock,            \* time.time()
    nextJob,          \* job ids handed out so far + 1
    started,          \* requests accepted so far
    budget,           \* requests accepted in one behaviour
    outputs,          \* what the models return in this behaviour
    data,             \* request.get_json() of each request
    segments,         \* segments of tts_dialogue
    all_audio,        \* all_audio of tts_dialogue
    sample_rate,      \* sample_rate of tts_dialogue (0: None)
    ref_audio_paths,  \* ref_audio_paths of a route with reference audio
    input,            \* the argument of the function under study
    result            \* what the function returned for it

vars == <<pc, req, left, removed, load_i, since_cond, put_now, job, got, raised,
          audio, all_chunks, out, calls, entry,
          gpu0_lock, model_lock, audio_cache_lock, history_lock, loaded, loads,
          generated_audio, made, history, history_dir, clock, nextJob, started, budget,
          outputs, data, segments, all_audio, sample_rate, ref_audio_paths,
          input, result>>

route == <<data, segments, all_audio, sample_rate, ref_audio_paths>>
sound == <<audio, all_chunks, out, calls, entry, route>>
locals == <<req, left, removed, load_i, since_cond, put_now, job, got, raised, sound>>
locks == <<gpu0_lock, model_lock, audio_cache_lock, history_lock>>
services == <<loaded, loads>>
cache == <<generated_audio, made, nextJob>>
pure == <<input, result>>
rest == <<history, history_dir, clock, started, budget, outputs, pure>>

\* kind: the endpoint; ref: reference audio supplied; id, shape: the job
\* identifier of a reading endpoint; n: segments / texts of the request;
\* ok: how the request-level checks end; bad: the first segment / text that
\* fails _validate_text (0: none).
NoReq == [kind |-> "none", ref |-> FALSE, id |-> 0, shape |-> "canonical",
          n |-> 0, ok |-> "ok", bad |-> 0]

\* A request body without the fields of the dialogue and reference models.
NoData == [of |-> "none"]

\* No function is under study.
NoInput == [of |-> "none"]
NoResult == [of |-> "none"]

(* ------------------------- request shapes ----------------------------- *)
ServiceOf(kind) == IF kind \in TTSKinds THEN "tts" ELSE "cb"

NumModels(s) == IF s = "tts" THEN NumTTSModels ELSE NumCBModels

\* generate_custom / generate_design and their streaming variants build the
\* voice-clone conditioning when reference audio is supplied.
NeedsConditioning(r) ==
    /\ r.kind \in {"custom", "design", "custom_stream", "design_stream"}
    /\ r.ref

\* The non-streaming Qwen methods return _apply_post(...) inside the
\* `with gpu0_lock` block; the streaming ones and Chatterbox leave it first.
PostInsideGate(kind) == kind \in {"clone", "custom", "design", "dialogue"}

Loops(kind) == kind \in {"dialogue", "cb_batch"}

\* chatterbox_batch answers with a zip and never calls _cache_audio.
Caches(kind) == kind # "cb_batch"

Release(lock, t) == IF lock = t THEN None ELSE lock

\* Thread t issues a device-0 model call: it falls between the two steps of
\* every other thread that has built its conditioning and not yet used it.
NoteCall(t) ==
    [u \in Threads |->
        IF u # t /\ since_cond[u] = "clean" THEN "dirty" ELSE since_cond[u]]

(* ------------------------------ Init ---------------------------------- *)
\* run.py main: unless --no-preload is given every service is loaded, one
\* after the other, before app.run starts the request threads.
InitProgram(preloads, requests, returns) ==
    /\ pc = [t \in Threads |-> "idle"]
    /\ req = [t \in Threads |-> NoReq]
    /\ left = [t \in Threads |-> 0]
    /\ removed = [t \in Threads |-> << >>]
    /\ load_i = [t \in Threads |-> 0]
    /\ since_cond = [t \in Threads |-> "none"]
    /\ put_now = [t \in Threads |-> 0]
    /\ job = [t \in Threads |-> 0]
    /\ got = [t \in Threads |-> "none"]
    /\ raised = [t \in Threads |-> "none"]
    /\ audio = [t \in Threads |-> NoAudio]
    /\ all_chunks = [t \in Threads |-> << >>]
    /\ out = [t \in Threads |-> << >>]
    /\ calls = [t \in Threads |-> 0]
    /\ entry = [t \in Threads |-> NoAudio]
    /\ gpu0_lock = None
    /\ model_lock = None
    /\ audio_cache_lock = None
    /\ history_lock = None
    /\ \E preload \in preloads :
          /\ loaded = [s \in Services |-> preload]
          /\ loads = [s \in Services |-> IF preload THEN 1 ELSE 0]
    /\ generated_audio = << >>
    /\ made = << >>
    /\ history = << >>
    /\ history_dir = {}
    /\ clock = 0
    /\ nextJob = 1
    /\ started = 0
    /\ budget = requests
    /\ outputs = returns
    /\ data = [t \in Threads |-> NoData]
    /\ segments = [t \in Threads |-> << >>]
    /\ all_audio = [t \in Threads |-> << >>]
    /\ sample_rate = [t \in Threads |-> 0]
    /\ ref_audio_paths = [t \in Threads |-> << >>]
    /\ result = NoResult

\* The server as it starts, no function being studied on its own.
InitWith(preloads, requests, returns) ==
    /\ InitProgram(preloads, requests, returns)
    /\ input = NoInput

Init == InitWith(BOOLEAN, MaxRequests, OneOutput)


(* ------------------------------- SSML ---------------------------------- *)
\* An attribute value as the parser's string tests see it: a numeric prefix
\* (form "int" or "dec", n its value in thousandths) followed by the
\* characters of tail; form "word" has no numeric prefix.
Lex(form, n, tail) == [form |-> form, n |-> n, tail |-> tail]

RECURSIVE Str(_)
\* The string made of the characters cs.
Str(cs) == IF cs = << >> THEN "" ELSE Head(cs) \o Str(Tail(cs))

\* str.endswith
EndsWith(cs, suffix) ==
    /\ Len(cs) >= Len(suffix)
    /\ SubSeq(cs, Len(cs) - Len(suffix) + 1, Len(cs)) = suffix

\* What a conversion returns, or that it raised ValueError.
Returned(v) == [raised |-> FALSE, value |-> v]
Raised == [raised |-> TRUE, value |-> 0]

\* _parse_time_ms: int(s[:-2]) for '...ms', int(float(s[:-1]) * 1000) for
\* '...s', both outside any try; int(s) otherwise, 500 when that fails.
_parse_time_ms(v) ==
    IF EndsWith(v.tail, <<"m", "s">>)
    THEN IF v.form = "int" /\ Len(v.tail) = 2
         THEN Returned(v.n \div 1000) ELSE Raised
    ELSE IF EndsWith(v.tail, <<"s">>)
    THEN IF v.form \in {"int", "dec"} /\ Len(v.tail) = 1
         THEN Returned(v.n) ELSE Raised
    ELSE IF v.form = "int" /\ v.tail = << >>
    THEN Returned(v.n \div 1000) ELSE Returned(500)

\* pitch_map of _parse_pitch, in thousandths of a semitone.
pitch_map ==
    [w \in {"x-low", "low", "medium", "high", "x-high", "default"} |->
        CASE w = "x-low" -> -6000 [] w = "low" -> -3000 [] w = "medium" -> 0
          [] w = "high" -> 3000 [] w = "x-high" -> 6000 [] w = "default" -> 0]

\* _parse_pitch: the map, then re.match(r'([+-]?\d+(?:\.\d+)?)\s*st'), which
\* asks only for a prefix; 0 otherwise.
_parse_pitch(v) ==
    IF v.form = "word"
    THEN IF Str(v.tail) \in DOMAIN pitch_map THEN pitch_map[Str(v.tail)] ELSE 0
    ELSE IF Len(v.tail) >= 2 /\ SubSeq(v.tail, 1, 2) = <<"s", "t">>
    THEN v.n ELSE 0

\* rate_map of _parse_rate, in thousandths.
rate_map ==
    [w \in {"x-slow", "slow", "medium", "fast", "x-fast", "default"} |->
        CASE w = "x-slow" -> 500 [] w = "slow" -> 750 [] w = "medium" -> 1000
          [] w = "fast" -> 1250 [] w = "x-fast" -> 1500 [] w = "default" -> 1000]

\* _parse_rate: the map; float(s[:-1]) / 100.0 for '...%', outside the try;
\* float(s) otherwise, 1.0 when that fails.
_parse_rate(v) ==
    IF v.form = "word" /\ Str(v.tail) \in DOMAIN rate_map
    THEN Returned(rate_map[Str(v.tail)])
    ELSE IF EndsWith(v.tail, <<"%">>)
    THEN IF v.form \in {"int", "dec"} /\ Len(v.tail) = 1
         THEN Returned(v.n \div 100) ELSE Raised
    ELSE IF v.form \in {"int", "dec"} /\ v.tail = << >>
    THEN Returned(v.n) ELSE Returned(1000)

\* vol_map of _parse_volume, in thousandths.
vol_map ==
    [w \in {"silent", "x-soft", "soft", "medium", "loud", "x-loud", "default"} |->
        CASE w = "silent" -> -40000 [] w = "x-soft" -> -24000
          [] w = "soft" -> -20000 [] w = "medium" -> -16000
          [] w = "loud" -> -12000 [] w = "x-loud" -> -8000
          [] w = "default" -> -16000]

\* _parse_volume
_parse_volume(v) ==
    IF v.form = "word" /\ Str(v.tail) \in DOMAIN vol_map
    THEN vol_map[Str(v.tail)] ELSE -16000

\* _emphasis_to_instruct
_emphasis_to_instruct(level) ==
    CASE level = "strong" -> "speak with strong emphasis and conviction"
      [] level = "moderate" -> "speak with moderate emphasis"
      [] level = "reduced" -> "speak softly and understated"
      [] level = "none" -> ""
      [] OTHER -> "speak with emphasis"

\* element.get(name, default)
Attr(element, name, default) ==
    IF name \in DOMAIN element.attrs THEN element.attrs[name] ELSE default

Has(element, name) == name \in DOMAIN element.attrs

\* The conversions of a prosody element's attributes that raised.
ProsodyRaises(element) ==
    /\ element.tag = "prosody"
    /\ Has(element, "rate")
    /\ _parse_rate(element.attrs["rate"]).raised

\* Mutant: the element's prosody starts empty, not from the enclosing one.
ProsodyOfFresh(element, context) ==
    (IF Has(element, "volume")
     THEN "volume_normalize" :> _parse_volume(element.attrs["volume"])
     ELSE << >>)
    @@ (IF Has(element, "pitch")
        THEN "pitch_shift" :> _parse_pitch(element.attrs["pitch"])
        ELSE << >>)
    @@ (IF Has(element, "rate")
        THEN "speed" :> _parse_rate(element.attrs["rate"]).value
        ELSE << >>)

\* prosody = {**context.get('prosody', {})} with the element's rate, pitch
\* and volume written over it.
ProsodyOf(element, context) ==
    (IF Has(element, "volume")
     THEN "volume_normalize" :> _parse_volume(element.attrs["volume"])
     ELSE << >>)
    @@ (IF Has(element, "pitch")
        THEN "pitch_shift" :> _parse_pitch(element.attrs["pitch"])
        ELSE << >>)
    @@ (IF Has(element, "rate")
        THEN "speed" :> _parse_rate(element.attrs["rate"]).value
        ELSE << >>)
    @@ context.prosody

\* The context an element hands to its text and to its children: a copy of
\* the one it was given with the fields its tag overrides.
ContextOf(element, context) ==
    CASE element.tag = "voice" ->
            [context EXCEPT !.speaker = Attr(element, "name", context.speaker)]
      [] element.tag = "prosody" ->
            [context EXCEPT !.prosody = ProsodyOf(element, context)]
      [] element.tag = "emphasis" ->
            LET instruct == _emphasis_to_instruct(Attr(element, "level", "moderate"))
            IN  IF instruct # "" THEN [context EXCEPT !.instruct = instruct]
                ELSE context
      [] OTHER -> context

\* The speech segment of a text in a context.
Speech(text, context) ==
    [type |-> "speech", text |-> text, speaker |-> context.speaker,
     language |-> context.language, instruct |-> context.instruct,
     prosody |-> context.prosody]

\* Stands in the segment list for a ValueError raised while the element was
\* processed; parse_ssml turns it into the exception.
RaiseMark == [type |-> "raise"]

Break(ms) == [type |-> "break", duration_ms |-> ms]

RECURSIVE _process_element(_, _)
RECURSIVE ChildSegmentsLeaky(_, _)
\* Mutant: the loop goes on with the context the child derived.
ChildSegmentsLeaky(children, context) ==
    IF children = << >> THEN << >>
    ELSE LET child == Head(children) IN
         _process_element(child, context)
         \o (IF child.tail # "" THEN <<Speech(child.tail, context)>> ELSE << >>)
         \o ChildSegmentsLeaky(Tail(children), ContextOf(child, context))

RECURSIVE ChildSegmentsTailChild(_, _)
\* Mutant: the tail text is emitted with the child's context.
ChildSegmentsTailChild(children, context) ==
    IF children = << >> THEN << >>
    ELSE LET child == Head(children) IN
         _process_element(child, context)
         \o (IF child.tail # ""
             THEN <<Speech(child.tail, ContextOf(child, context))>> ELSE << >>)
         \o ChildSegmentsTailChild(Tail(children), context)

RECURSIVE ChildSegmentsTailFirst(_, _)
\* Mutant: the tail text is emitted ahead of the child's segments.
ChildSegmentsTailFirst(children, context) ==
    IF children = << >> THEN << >>
    ELSE LET child == Head(children) IN
         (IF child.tail # "" THEN <<Speech(child.tail, context)>> ELSE << >>)
         \o _process_element(child, context)
         \o ChildSegmentsTailFirst(Tail(children), context)

RECURSIVE ChildSegments(_, _)
\* for child in element: the child's segments, then its tail text in the
\* context of the element that is being processed.
ChildSegments(children, context) ==
    IF children = << >> THEN << >>
    ELSE LET child == Head(children) IN
         _process_element(child, context)
         \o (IF child.tail # "" THEN <<Speech(child.tail, context)>> ELSE << >>)
         \o ChildSegments(Tail(children), context)

\* tag == 'break': one break segment, nothing of the element's text or
\* children.
BreakSegment(element) ==
    LET ms == _parse_time_ms(Attr(element, "time", Lex("int", 500000, <<"m", "s">>)))
    IN  IF ms.raised THEN <<RaiseMark>> ELSE <<Break(ms.value)>>

\* _process_element(element, context)
_process_element(element, context) ==
    IF element.tag = "break" THEN BreakSegment(element)
    ELSE IF ProsodyRaises(element) THEN <<RaiseMark>>
    ELSE LET own == ContextOf(element, context) IN
         (IF element.text # "" THEN <<Speech(element.text, own)>> ELSE << >>)
         \o ChildSegments(element.children, own)

\* An SSML document as ET.fromstring sees it: not well-formed, or the text
\* and the children of its <speak> root (parse_ssml wraps a document that
\* does not start with <speak in one).
Unparsable == [parses |-> FALSE, text |-> "", children |-> << >>]

RootOf(doc) ==
    [tag |-> "speak", attrs |-> << >>, text |-> doc.text, tail |-> "",
     children |-> doc.children]

RootContext ==
    [speaker |-> "None", language |-> "None", instruct |-> "None",
     prosody |-> << >>]

\* parse_ssml: ValueError for a document that does not parse (and for a
\* ValueError that leaves _process_element), else the segments.
parse_ssml(doc) ==
    IF ~doc.parses THEN [raised |-> TRUE, segments |-> << >>]
    ELSE LET segs == _process_element(RootOf(doc), RootContext) IN
         IF \E i \in 1 .. Len(segs) : segs[i] = RaiseMark
         THEN [raised |-> TRUE, segments |-> << >>]
         ELSE [raised |-> FALSE, segments |-> segs]

(* --------------------------- SSML documents ---------------------------- *)
ElementTags == {"voice", "prosody", "emphasis", "break"}

RECURSIVE PathStr(_)
PathStr(path) ==
    IF path = << >> THEN "" ELSE ToString(Head(path)) \o PathStr(Tail(path))

\* The attributes of the element at path: every voice element names its own
\* speaker, the other values go by the element's place among its siblings.
AttrsAt(tag, path) ==
    LET j == ((path[Len(path)] - 1) % 4) + 1 IN
    CASE tag = "voice" -> "name" :> ("V" \o PathStr(path))
      [] tag = "prosody" ->
            <<"rate" :> Lex("word", 0, <<"s", "l", "o", "w">>),
              ("pitch" :> Lex("int", 2000, <<"s", "t">>))
                  @@ ("rate" :> Lex("int", 150000, <<"%">>)),
              "volume" :> Lex("word", 0, <<"l", "o", "u", "d">>),
              "rate" :> Lex("dec", 1500, << >>)>>[j]
      [] tag = "emphasis" ->
            <<"level" :> "strong", "level" :> "reduced", "level" :> "none",
              << >> >>[j]
      [] tag = "break" ->
            <<"time" :> Lex("int", 500000, <<"m", "s">>),
              "time" :> Lex("int", 2000, <<"s", "e", "c", "s">>),
              "time" :> Lex("word", 0, <<"s", "o", "o", "n">>),
              "time" :> Lex("dec", 1500, <<"s">>)>>[j]

RECURSIVE Forests(_)
\* The sequences of element shapes with k elements in all.
Forests(k) ==
    IF k = 0 THEN {<< >>}
    ELSE UNION {
        {<<[tag |-> g, hasTail |-> b, children |-> c]>> \o f :
            g \in (IF i = 1 THEN ElementTags ELSE ElementTags \ {"break"}),
            b \in BOOLEAN, c \in Forests(i - 1), f \in Forests(k - i)} :
        i \in 1 .. k}

RECURSIVE Written(_, _)
\* The elements of the shapes, each with its attributes and its own texts.
Written(shapes, path) ==
    [j \in 1 .. Len(shapes) |->
        LET at == Append(path, j) IN
        [tag |-> shapes[j].tag,
         attrs |-> AttrsAt(shapes[j].tag, at),
         text |-> IF shapes[j].tag = "break" THEN "" ELSE "t" \o PathStr(at),
         tail |-> IF shapes[j].hasTail THEN "a" \o PathStr(at) ELSE "",
         children |-> Written(shapes[j].children, at)]]

\* <speak><voice name="A">Hi</voice><break time="500ms"/><voice name="B">Bye</voice></speak>
ExampleDoc ==
    [parses |-> TRUE, text |-> "",
     children |-> <<
        [tag |-> "voice", attrs |-> "name" :> "A", text |-> "Hi", tail |-> "",
         children |-> << >>],
        [tag |-> "break", attrs |-> "time" :> Lex("int", 500000, <<"m", "s">>),
         text |-> "", tail |-> "", children |-> << >>],
        [tag |-> "voice", attrs |-> "name" :> "B", text |-> "Bye", tail |-> "",
         children |-> << >>]>>]

\* The documents handed to parse_ssml.
Docs ==
    {[parses |-> TRUE, text |-> "t", children |-> Written(f, << >>)] :
        f \in UNION {Forests(k) : k \in 0 .. MaxNodes}}
    \cup {ExampleDoc, Unparsable}

\* segments = parse_ssml(ssml_text)
ParseSsml ==
    /\ input.of = "parse_ssml"
    /\ result = NoResult
    /\ result' = [of |-> "parse_ssml", ret |-> parse_ssml(input.doc)]
    /\ UNCHANGED <<pc, locals, locks, services, cache, history, history_dir, clock, started,
                   budget, outputs, input>>

InitSsml ==
    /\ InitProgram({TRUE}, 0, OneOutput)
    /\ \E doc \in Docs : input = [of |-> "parse_ssml", doc |-> doc]

SsmlNext == ParseSsml

SpecSsml == InitSsml /\ [][SsmlNext]_vars


(* ------------------------------------------------------------------------ *)
(* Request parameters: routes/tts.py _extract_inference_params and          *)
(* routes/chatterbox.py _extract_chatterbox_params.  Numbers are in         *)
(* thousandths.                                                             *)
(* ------------------------------------------------------------------------ *)
\* float('nan'): every comparison with it is false.
NaN == 999999999

Less(a, b) == a # NaN /\ b # NaN /\ a < b
LessEq(a, b) == a # NaN /\ b # NaN /\ a <= b

\* Python's min(a, b) and max(a, b): the first argument unless the second
\* is strictly smaller (larger).
PyMin(a, b) == IF Less(b, a) THEN b ELSE a
PyMax(a, b) == IF Less(a, b) THEN b ELSE a

\* A JSON value of a request field: a number, a boolean, a string that
\* reads as a number (written without a point when it is whole), any other
\* string, null.
Num(n) == [form |-> "num", n |-> n]
True == [form |-> "bool", n |-> 1000]
False == [form |-> "bool", n |-> 0]
NumStr(n) == [form |-> "str", n |-> n]
Word == [form |-> "word", n |-> 0]
Null == [form |-> "null", n |-> 0]

\* float(v)
ToFloat(v) == IF v.form \in {"num", "bool", "str"} THEN Returned(v.n) ELSE Raised

\* int(v): a number loses its fraction, a string must be written as an
\* integer, NaN cannot be converted.
ToInt(v) ==
    IF v.form \in {"num", "bool"} /\ v.n # NaN
        THEN Returned(IF v.n < 0 THEN 0 - (((0 - v.n) \div 1000) * 1000)
                      ELSE (v.n \div 1000) * 1000)
    ELSE IF v.form = "str" /\ v.n # NaN /\ v.n % 1000 = 0 THEN Returned(v.n)
    ELSE Raised

\* 'k' in data and data['k'] is not None
Present(body, k) == k \in DOMAIN body /\ body[k].form # "null"

NoError == [of |-> "none", field |-> ""]
Rejected(kind, field) == [params |-> << >>, error |-> [of |-> kind, field |-> field]]

\* The fields _extract_inference_params reads, in its order, each with its
\* conversion and its closed interval.
InferenceFields ==
    << [name |-> "temperature", int |-> FALSE, lo |-> 100, hi |-> 2000],
       [name |-> "top_k", int |-> TRUE, lo |-> 1000, hi |-> 200000],
       [name |-> "top_p", int |-> FALSE, lo |-> 0, hi |-> 1000],
       [name |-> "repetition_penalty", int |-> FALSE, lo |-> 1000, hi |-> 2000] >>

RECURSIVE ExtractInference(_, _, _)
\* One `if 'k' in data` block: the converted value when it lies in the
\* interval, the error otherwise.
InferenceField(f, v, params) ==
    IF ~(LessEq(f.lo, v) /\ LessEq(v, f.hi))
        THEN [stop |-> TRUE, params |-> << >>]
    ELSE [stop |-> FALSE, params |-> (f.name :> v) @@ params]

ExtractInference(fields, body, params) ==
    IF fields = << >> THEN [params |-> params, error |-> NoError]
    ELSE LET f == Head(fields) IN
         IF ~Present(body, f.name) THEN ExtractInference(Tail(fields), body, params)
         ELSE LET v == IF f.int THEN ToInt(body[f.name]) ELSE ToFloat(body[f.name]) IN
              IF v.raised THEN Rejected("numeric", f.name)
              ELSE LET r == InferenceField(f, v.value, params) IN
                   IF r.stop THEN Rejected("range", f.name)
                   ELSE ExtractInference(Tail(fields), body, r.params)

\* _extract_inference_params(body); an empty params stands for None too.
_extract_inference_params(body) == ExtractInference(InferenceFields, body, << >>)

MAX_EXAGGERATION == 2000

\* data.get(k, default)
Get(body, k, default) == IF k \in DOMAIN body THEN body[k] ELSE default

\* The optional fields of _extract_chatterbox_params, in its order.
ChatterboxExtras ==
    << [name |-> "repetition_penalty", lo |-> 1000, hi |-> 3000],
       [name |-> "min_p", lo |-> 0, hi |-> 1000],
       [name |-> "top_p", lo |-> 0, hi |-> 1000] >>

RECURSIVE ExtractExtras(_, _, _)
\* Mutant: a value outside the interval is an error.
ExtraFieldRejects(f, v, extra) ==
    IF ~(LessEq(f.lo, v) /\ LessEq(v, f.hi))
        THEN [stop |-> TRUE, params |-> << >>]
    ELSE [stop |-> FALSE, params |-> (f.name :> v) @@ extra]

\* extra['k'] = max(lo, min(hi, v))
ExtraField(f, v, extra) ==
    [stop |-> FALSE, params |-> (f.name :> PyMax(f.lo, PyMin(f.hi, v))) @@ extra]

ExtractExtras(fields, body, extra) ==
    IF fields = << >> THEN [params |-> extra, error |-> NoError]
    ELSE LET f == Head(fields) IN
         IF ~Present(body, f.name) THEN ExtractExtras(Tail(fields), body, extra)
         ELSE LET v == ToFloat(body[f.name]) IN
              IF v.raised THEN Rejected("numeric", f.name)
              ELSE LET r == ExtraField(f, v.value, extra) IN
                   IF r.stop THEN Rejected("range", f.name)
                   ELSE ExtractExtras(Tail(fields), body, r.params)

\* _extract_chatterbox_params(body)
_extract_chatterbox_params(body) ==
    LET exaggeration == ToFloat(Get(body, "exaggeration", Num(500)))
        cfg_weight == ToFloat(Get(body, "cfg_weight", Num(500)))
        temperature == ToFloat(Get(body, "temperature", Num(800)))
    IN  IF exaggeration.raised THEN Rejected("numeric", "exaggeration")
        ELSE IF cfg_weight.raised THEN Rejected("numeric", "cfg_weight")
        ELSE IF temperature.raised THEN Rejected("numeric", "temperature")
        ELSE ExtractExtras(ChatterboxExtras, body,
                 ("exaggeration" :> PyMax(0, PyMin(exaggeration.value, MAX_EXAGGERATION)))
                 @@ ("cfg_weight" :> PyMax(0, PyMin(1000, cfg_weight.value)))
                 @@ ("temperature" :> PyMax(50, PyMin(2000, temperature.value))))

\* The request bodies tried: at most MaxFields of the fields, each with one
\* of the values.
ParamFields ==
    {"temperature", "top_k", "top_p", "repetition_penalty",
     "exaggeration", "cfg_weight", "min_p"}

ParamValues ==
    {Word, Null, Num(NaN), NumStr(500), NumStr(2500)}
    \cup {Num(n) : n \in {0 - 500, 0, 50, 500, 1000, 1500, 2000, 2500, 3000, 3500,
                          200000, 200500, 201000}}

Bodies ==
    UNION {[names -> ParamValues] :
              names \in {s \in SUBSET ParamFields : Cardinality(s) <= MaxFields}}

\* The parameter step of a generation route of either family.
ExtractParams ==
    /\ input.of = "params"
    /\ result = NoResult
    /\ result' = [of |-> "params",
                  ret |-> IF input.family = "chatterbox"
                          THEN _extract_chatterbox_params(input.data)
                          ELSE _extract_inference_params(input.data)]
    /\ UNCHANGED <<pc, locals, locks, services, cache, history, history_dir, clock, started,
                   budget, outputs, input>>

InitParams ==
    /\ InitProgram({TRUE}, 0, OneOutput)
    /\ \E family \in {"qwen", "chatterbox"}, body \in Bodies :
          input = [of |-> "params", family |-> family, data |-> body]

ParamsNext == ExtractParams

SpecParams == InitParams /\ [][ParamsNext]_vars

(* ------------------------------------------------------------------------ *)
(* services/audio_utils.py: the post-processing chain.  The samples that    *)
(* librosa and scipy return lie outside the source: a stage that runs       *)
(* returns one of StageWaves(n), n being the length the code asks for.      *)
(* ------------------------------------------------------------------------ *)
\* The rates of VALID_SAMPLE_RATES, on the scale of Rates.
VALID_SAMPLE_RATES == {10, 20, 40}

\* What a call gives back: the waveform and its rate, or an exception; ran
\* lists the library stages that were called on the way, in their order.
Audio(wav, sr) == [raised |-> FALSE, wav |-> wav, sr |-> sr, ran |-> << >>]
RaisedAudio == [raised |-> TRUE, wav |-> << >>, sr |-> 0, ran |-> << >>]

\* The outcomes of a stage that was called on a.
Ran(outcomes, a, stage) == {[o EXCEPT !.ran = Append(a.ran, stage)] : o \in outcomes}

\* A conversion of an option raised before its stage was called.
Fail(a) == {[RaisedAudio EXCEPT !.ran = a.ran]}

StageWaves(n) == {[i \in 1 .. n |-> v] : v \in {0 - 1, 1}}

Abs(n) == IF n < 0 THEN 0 - n ELSE n

\* round(p / q) for p >= 0 and q > 0: a half goes to the even neighbour.
RoundDiv(p, q) ==
    LET f == p \div q
        r == p % q
    IN  IF 2 * r < q THEN f
        ELSE IF 2 * r > q THEN f + 1
        ELSE IF f % 2 = 0 THEN f ELSE f + 1

\* bool(v) of an option value
Truthy(v) == v.form \in {"word", "list"} \/ (v.form \in {"num", "bool", "str"} /\ (v.form = "str" \/ v.n # 0))

\* resample_audio(wav, sr, target_sr)
resample_audio(wav, sr, target_sr) ==
    IF sr = target_sr THEN {Audio(wav, target_sr)}
    ELSE {Audio(w, target_sr) : w \in StageWaves(RoundDiv(Len(wav) * target_sr, sr))}

\* min(10 ** (target_lufs / 20), 0.99), in thousandths, for the targets the
\* requests of the model name.
TargetPeak(target_lufs) ==
    CASE target_lufs = 0 - 40000 -> 10
      [] target_lufs = 0 - 24000 -> 63
      [] target_lufs = 0 - 20000 -> 100
      [] target_lufs = 0 - 16000 -> 158
      [] target_lufs = 0 - 12000 -> 251
      [] target_lufs = 0 - 8000 -> 398
      [] target_lufs = 0 - 6000 -> 501

RECURSIVE Peak(_)
\* np.max(np.abs(wav))
Peak(wav) ==
    IF wav = << >> THEN 0
    ELSE LET rest_peak == Peak(Tail(wav)) IN
         IF Abs(Head(wav)) > rest_peak THEN Abs(Head(wav)) ELSE rest_peak

\* normalize_volume(wav, target_lufs): wav * (target_peak / peak), each
\* sample brought back to the model's grid of halves, towards zero.
normalize_volume(wav, target_lufs) ==
    IF Peak(wav) = 0 THEN wav
    ELSE [i \in 1 .. Len(wav) |->
             LET v == wav[i] * TargetPeak(target_lufs) IN
             IF v >= 0 THEN v \div (Peak(wav) * 1000)
             ELSE 0 - ((0 - v) \div (Peak(wav) * 1000))]

\* time_stretch(wav, sr, rate); librosa rejects a rate that is not positive.
time_stretch(wav, sr, rate) ==
    IF Abs(rate - 1000) < 10 THEN {Audio(wav, sr)}
    ELSE IF rate <= 0 THEN {RaisedAudio}
    ELSE {Audio(w, sr) : w \in StageWaves(RoundDiv(Len(wav) * 1000, rate))}

\* pitch_shift(wav, sr, n_steps)
pitch_shift(wav, sr, n_steps) ==
    IF Abs(n_steps) < 10 THEN {Audio(wav, sr)}
    ELSE {Audio(w, sr) : w \in StageWaves(Len(wav))}

\* 1. Pitch shift
PitchStage(a, options) ==
    LET n_steps == Get(options, "pitch_shift", Num(0)) IN
    IF ~Truthy(n_steps) THEN {a}
    ELSE IF ToFloat(n_steps).raised THEN Fail(a)
    ELSE IF Abs(ToFloat(n_steps).value) >= 10
        THEN Ran(pitch_shift(a.wav, a.sr, ToFloat(n_steps).value), a, "pitch_shift")
    ELSE {a}

\* 2. Speed / time stretch
SpeedStage(a, options) ==
    LET speed == Get(options, "speed", Num(1000)) IN
    IF ~Truthy(speed) THEN {a}
    ELSE IF ToFloat(speed).raised THEN Fail(a)
    ELSE IF Abs(ToFloat(speed).value - 1000) >= 10
        THEN Ran(time_stretch(a.wav, a.sr, ToFloat(speed).value), a, "time_stretch")
    ELSE {a}

\* Mutant: only an absent volume_normalize skips the normalization.
VolumeStageUnlessAbsent(a, options) ==
    LET vol == Get(options, "volume_normalize", Null) IN
    IF vol.form = "null" THEN {a}
    ELSE Ran({Audio(normalize_volume(a.wav,
                        IF vol.form = "num" /\ vol.n < 0 THEN vol.n ELSE 0 - 16000),
                    a.sr)}, a, "normalize_volume")

\* 3. Volume normalization
VolumeStage(a, options) ==
    LET vol == Get(options, "volume_normalize", Null) IN
    IF vol.form = "null" \/ vol = False THEN {a}
    ELSE Ran({Audio(normalize_volume(a.wav,
                        IF vol.form = "num" /\ vol.n < 0 THEN vol.n ELSE 0 - 16000),
                    a.sr)}, a, "normalize_volume")

\* 4. Resample
ResampleStage(a, options) ==
    LET target_sr == Get(options, "sample_rate", Null) IN
    IF ~Truthy(target_sr) THEN {a}
    ELSE IF ToInt(target_sr).raised THEN Fail(a)
    ELSE LET rate == ToInt(target_sr).value \div 1000 IN
         IF rate # a.sr /\ rate \in VALID_SAMPLE_RATES
             THEN Ran(resample_audio(a.wav, a.sr, rate), a, "resample_audio")
         ELSE {a}

\* The next stage on every outcome of the stages before it; an exception
\* ends the chain.
Then(outcomes, Stage(_, _), options) ==
    UNION {IF a.raised THEN {a} ELSE Stage(a, options) : a \in outcomes}

\* Mutant: the time stretch comes before the pitch shift.
ApplyPostSpeedFirst(wav, sr, options) ==
    IF options = << >> THEN {Audio(wav, sr)}
    ELSE Then(Then(Then(SpeedStage(Audio(wav, sr), options),
                        PitchStage, options),
                   VolumeStage, options),
              ResampleStage, options)

\* apply_post_processing(wav, sr, options): what it may return.  An empty
\* options stands for None too.
apply_post_processing(wav, sr, options) ==
    IF options = << >> THEN {Audio(wav, sr)}
    ELSE Then(Then(Then(PitchStage(Audio(wav, sr), options),
                        SpeedStage, options),
                   VolumeStage, options),
              ResampleStage, options)

\* The option sets tried: every key absent or with one of its values.
OptionValues(key) ==
    CASE key = "pitch_shift" ->
             {Null, Num(0), Num(5), Num(0 - 9), Num(10), Num(2000), Word}
      [] key = "speed" ->
             {Null, Num(0), Num(1000), Num(991), Num(1009), Num(1010), Num(500), Num(2000)}
      [] key = "volume_normalize" ->
             {Null, False, True, Num(0), Num(0 - 20000)}
      [] key = "sample_rate" ->
             {Null, Num(10000), Num(20000), Num(15000), Num(0)}

OptionKeys == {"pitch_shift", "speed", "volume_normalize", "sample_rate"}

OptionSets ==
    UNION {{o \in [keys -> UNION {OptionValues(k) : k \in keys}] :
               \A k \in keys : o[k] \in OptionValues(k)} :
           keys \in SUBSET OptionKeys}

\* One call of apply_post_processing.
ApplyPost ==
    /\ input.of = "post"
    /\ result = NoResult
    /\ \E r \in apply_post_processing(input.wav, input.sr, input.options) :
          result' = [of |-> "post", ret |-> r]
    /\ UNCHANGED <<pc, locals, locks, services, cache, history, history_dir, clock, started,
                   budget, outputs, input>>

InitPost ==
    /\ InitProgram({TRUE}, 0, OneOutput)
    /\ \E o \in Outputs, options \in OptionSets :
          input = [of |-> "post", wav |-> o.wav, sr |-> o.sr, options |-> options]

PostNext == ApplyPost

SpecPost == InitPost /\ [][PostNext]_vars
(* ------------------------ request entry / exit ------------------------ *)
\* The end of a handler: the thread's locals go away.
Finish(t) ==
    /\ pc' = [pc EXCEPT ![t] = "idle"]
    /\ req' = [req EXCEPT ![t] = NoReq]
    /\ left' = [left EXCEPT ![t] = 0]
    /\ removed' = [removed EXCEPT ![t] = << >>]
    /\ load_i' = [load_i EXCEPT ![t] = 0]
    /\ put_now' = [put_now EXCEPT ![t] = 0]
    /\ job' = [job EXCEPT ![t] = 0]
    /\ got' = [got EXCEPT ![t] = "none"]
    /\ raised' = [raised EXCEPT ![t] = "none"]
    /\ audio' = [audio EXCEPT ![t] = NoAudio]
    /\ all_chunks' = [all_chunks EXCEPT ![t] = << >>]
    /\ out' = [out EXCEPT ![t] = << >>]
    /\ calls' = [calls EXCEPT ![t] = 0]
    /\ entry' = [entry EXCEPT ![t] = NoAudio]
    /\ data' = [data EXCEPT ![t] = NoData]
    /\ segments' = [segments EXCEPT ![t] = << >>]
    /\ all_audio' = [all_audio EXCEPT ![t] = << >>]
    /\ sample_rate' = [sample_rate EXCEPT ![t] = 0]
    /\ ref_audio_paths' = [ref_audio_paths EXCEPT ![t] = << >>]

\* The request bodies a generation endpoint can receive.
Requests(kinds, oks) ==
    {r \in [kind : kinds, ref : BOOLEAN, id : {0}, shape : {"canonical"},
            n : 1 .. MaxItems, ok : oks, bad : 0 .. MaxItems] :
        /\ r.kind \in {"clone", "clone_stream"} /\ r.ok = "ok" => r.ref
        /\ r.kind \in {"dialogue"} \cup CBKinds => ~r.ref
        /\ r.ok = "ref_missing" => r.ref
        /\ ~Loops(r.kind) => r.n = 1 /\ r.bad = 0
        /\ r.bad <= r.n}

\* A generation endpoint (routes/tts.py, routes/chatterbox.py) after its
\* validation: the service method is entered.
StartOf(t, kinds) ==
    /\ pc[t] = "idle"
    /\ started < budget
    /\ \E r \in Requests(kinds, {"ok"}) :
          /\ r.bad = 0
          /\ req' = [req EXCEPT ![t] = r]
          /\ left' = [left EXCEPT ![t] = r.n]
    /\ pc' = [pc EXCEPT ![t] = "load_check"]
    /\ started' = started + 1
    /\ UNCHANGED <<removed, load_i, since_cond, put_now, job, got, raised, sound, locks,
                   services, cache, history, history_dir, clock, budget, outputs, pure>>

StartGenerate(t) == StartOf(t, GateKinds)

\* A generation endpoint as it receives the request body, before any check.
StartRequest(t) ==
    /\ pc[t] = "idle"
    /\ started < budget
    /\ \E r \in Requests(GateKinds, {"ok", "bad_field", "ref_missing"}) :
          /\ req' = [req EXCEPT ![t] = r]
          /\ left' = [left EXCEPT ![t] = r.n]
    /\ pc' = [pc EXCEPT ![t] = "validate"]
    /\ started' = started + 1
    /\ UNCHANGED <<removed, load_i, since_cond, put_now, job, got, raised, sound, locks,
                   services, cache, history, history_dir, clock, budget, outputs, pure>>

\* The checks in front of the service call: _validate_text,
\* _validate_instruct, _resolve_reference_audio, _extract_inference_params,
\* _extract_post_processing answer 400 (404 for a missing reference file);
\* tts_dialogue and chatterbox_batch check each text inside their loop, the
\* first one before anything was generated.
Validate(t) ==
    /\ pc[t] = "validate"
    /\ pc' = [pc EXCEPT ![t] =
                 IF req[t].ok # "ok" THEN "rejected"
                 ELSE IF Loops(req[t].kind) /\ req[t].bad = 1 THEN "rejected"
                 ELSE "load_check"]
    /\ UNCHANGED <<locals, locks, services, cache, rest>>

\* The status of the answer to a rejected request.
RejectStatus(r) == IF r.ok = "ref_missing" THEN 404 ELSE 400

\* return jsonify({'error': ...}), 400
Reject(t) ==
    /\ pc[t] = "rejected"
    /\ Finish(t)
    /\ UNCHANGED <<since_cond, locks, services, cache, rest>>

(* --------------------- load_models / load_model ----------------------- *)
\* First, unlocked test of the loaded flag.
LoadCheck(t) ==
    /\ pc[t] = "load_check"
    /\ pc' = [pc EXCEPT ![t] =
                 IF loaded[ServiceOf(req[t].kind)] THEN "gen_acquire"
                 ELSE "load_acquire"]
    /\ UNCHANGED <<locals, locks, services, cache, rest>>

\* Mutant: single-checked locking, the flag is not tested again under the
\* gate.
LoadAcquireNoRecheck(t) ==
    /\ pc[t] = "load_acquire"
    /\ gpu0_lock = None
    /\ pc' = [pc EXCEPT ![t] = "loading"]
    /\ gpu0_lock' = t
    /\ UNCHANGED <<locals, model_lock, audio_cache_lock, history_lock,
                   services, cache, rest>>

\* `with gpu0_lock:` followed by the second test of the flag.
LoadAcquire(t) ==
    /\ pc[t] = "load_acquire"
    /\ gpu0_lock = None
    /\ IF loaded[ServiceOf(req[t].kind)]
       THEN /\ pc' = [pc EXCEPT ![t] = "gen_acquire"]
            /\ UNCHANGED gpu0_lock
       ELSE /\ pc' = [pc EXCEPT ![t] = "loading"]
            /\ gpu0_lock' = t
    /\ UNCHANGED <<locals, model_lock, audio_cache_lock, history_lock,
                   services, cache, rest>>

\* One from_pretrained call returns; after the last one the flag is set and
\* the gate released.
LoadStepOk(t) ==
    /\ pc[t] = "loading"
    /\ LET s == ServiceOf(req[t].kind) IN
       IF load_i[t] + 1 < NumModels(s)
       THEN /\ load_i' = [load_i EXCEPT ![t] = load_i[t] + 1]
            /\ UNCHANGED <<pc, gpu0_lock, services>>
       ELSE /\ load_i' = [load_i EXCEPT ![t] = 0]
            /\ loaded' = [loaded EXCEPT ![s] = TRUE]
            /\ loads' = [loads EXCEPT ![s] = IF loads[s] < 2 THEN loads[s] + 1 ELSE 2]
            /\ gpu0_lock' = Release(gpu0_lock, t)
            /\ pc' = [pc EXCEPT ![t] = "gen_acquire"]
    /\ UNCHANGED <<req, left, removed, since_cond, put_now, job, got, raised, sound,
                   model_lock, audio_cache_lock, history_lock, cache, rest>>

\* Mutant: acquire()/release() without try/finally, a raising load keeps
\* the gate.
LoadStepRaiseKeepsGate(t) ==
    /\ pc[t] = "loading"
    /\ load_i' = [load_i EXCEPT ![t] = 0]
    /\ raised' = [raised EXCEPT ![t] = "load"]
    /\ pc' = [pc EXCEPT ![t] = "raised"]
    /\ UNCHANGED <<req, left, removed, since_cond, put_now, job, got, sound, locks,
                   services, cache, rest>>

\* One from_pretrained call raises: the `with` block is left, the flag is
\* not touched and the exception travels up to the route.
LoadStepRaise(t) ==
    /\ pc[t] = "loading"
    /\ load_i' = [load_i EXCEPT ![t] = 0]
    /\ gpu0_lock' = Release(gpu0_lock, t)
    /\ raised' = [raised EXCEPT ![t] = "load"]
    /\ pc' = [pc EXCEPT ![t] = "raised"]
    /\ UNCHANGED <<req, left, removed, since_cond, put_now, job, got, sound, model_lock,
                   audio_cache_lock, history_lock, services, cache, rest>>

(* ------------------- the gate's critical section --------------------- *)
\* Mutant: a generate method that calls the model without the gate.
GenAcquireNoGate(t) ==
    /\ pc[t] = "gen_acquire"
    /\ pc' = [pc EXCEPT ![t] =
                 IF NeedsConditioning(req[t]) THEN "in_cond" ELSE "in_gen"]
    /\ since_cond' = NoteCall(t)
    /\ calls' = [calls EXCEPT ![t] = calls[t] + 1]
    /\ UNCHANGED <<req, left, removed, load_i, put_now, job, got, raised, audio,
                   all_chunks, out, entry, route, locks, services, cache, rest>>

\* `with gpu0_lock:` of a generate method; with reference audio the custom
\* and design methods first call create_voice_clone_prompt on the base
\* model (_build_voice_clone_conditioning), the others call generate_*.
GenAcquire(t) ==
    /\ pc[t] = "gen_acquire"
    /\ gpu0_lock = None
    /\ gpu0_lock' = t
    /\ pc' = [pc EXCEPT ![t] =
                 IF NeedsConditioning(req[t]) THEN "in_cond" ELSE "in_gen"]
    /\ since_cond' = NoteCall(t)
    /\ calls' = [calls EXCEPT ![t] = calls[t] + 1]
    /\ UNCHANGED <<req, left, removed, load_i, put_now, job, got, raised, audio,
                   all_chunks, out, entry, route, model_lock, audio_cache_lock,
                   history_lock, services, cache, rest>>

\* Mutant: the conditioning is built under an acquisition of its own.
CondOkReleasesGate(t) ==
    /\ pc[t] = "in_cond"
    /\ pc' = [pc EXCEPT ![t] = "cond_built"]
    /\ gpu0_lock' = Release(gpu0_lock, t)
    /\ since_cond' = [since_cond EXCEPT ![t] = "clean"]
    /\ UNCHANGED <<req, left, removed, load_i, put_now, job, got, raised, sound,
                   model_lock, audio_cache_lock, history_lock, services, cache,
                   rest>>

\* create_voice_clone_prompt returns; the prompt dictionary is built.
CondOk(t) ==
    /\ pc[t] = "in_cond"
    /\ pc' = [pc EXCEPT ![t] = "cond_built"]
    /\ since_cond' = [since_cond EXCEPT ![t] = "clean"]
    /\ UNCHANGED <<req, left, removed, load_i, put_now, job, got, raised, sound, locks,
                   services, cache, rest>>

\* generate_custom_voice / generate_voice_design is called with the prompt.
GenCall(t) ==
    /\ pc[t] = "cond_built"
    /\ pc' = [pc EXCEPT ![t] = "in_gen"]
    /\ since_cond' = NoteCall(t)
    /\ calls' = [calls EXCEPT ![t] = calls[t] + 1]
    /\ UNCHANGED <<req, left, removed, load_i, put_now, job, got, raised, audio,
                   all_chunks, out, entry, route, locks, services, cache, rest>>

\* What the route holds once the model has returned o: tts_dialogue appends
\* the segment's audio to all_audio (every segment comes from the custom
\* model, at its rate), the other routes hold the last output.
Generated(kind, a, o) ==
    IF kind = "dialogue" THEN [wav |-> a.wav \o o.wav, sr |-> o.sr] ELSE o

\* Mutant: the gate is not released when the model call returns.
GenOkKeepsGate(t) ==
    /\ pc[t] = "in_gen"
    /\ \E o \in outputs :
          /\ audio[t].sr \in {0, o.sr}
          /\ audio' = [audio EXCEPT ![t] = Generated(req[t].kind, audio[t], o)]
    /\ pc' = [pc EXCEPT ![t] =
                 IF PostInsideGate(req[t].kind) THEN "post_locked" ELSE "post"]
    /\ since_cond' = [since_cond EXCEPT ![t] = "none"]
    /\ UNCHANGED <<req, left, removed, load_i, put_now, job, got, raised, all_chunks,
                   out, calls, entry, route, locks, services, cache, rest>>

\* The model call returns.  The non-streaming Qwen methods stay in the
\* `with` block for _apply_post; the others leave the block.
GenOk(t) ==
    /\ pc[t] = "in_gen"
    /\ \E o \in outputs :
          /\ audio[t].sr \in {0, o.sr}
          /\ audio' = [audio EXCEPT ![t] = Generated(req[t].kind, audio[t], o)]
    /\ IF PostInsideGate(req[t].kind)
       THEN /\ pc' = [pc EXCEPT ![t] = "post_locked"]
            /\ UNCHANGED gpu0_lock
       ELSE /\ pc' = [pc EXCEPT ![t] = "post"]
            /\ gpu0_lock' = Release(gpu0_lock, t)
    /\ since_cond' = [since_cond EXCEPT ![t] = "none"]
    /\ UNCHANGED <<req, left, removed, load_i, put_now, job, got, raised, all_chunks,
                   out, calls, entry, route, model_lock, audio_cache_lock,
                   history_lock, services, cache, rest>>

\* Mutant: the service catches the exception and calls the model again.
ModelRaiseRetries(t) ==
    /\ pc[t] \in {"in_cond", "in_gen"}
    /\ gpu0_lock' = Release(gpu0_lock, t)
    /\ since_cond' = [since_cond EXCEPT ![t] = "none"]
    /\ raised' = [raised EXCEPT ![t] = "model"]
    /\ pc' = [pc EXCEPT ![t] = IF calls[t] < 2 THEN "gen_acquire" ELSE "raised"]
    /\ UNCHANGED <<req, left, removed, load_i, put_now, job, got, sound, model_lock,
                   audio_cache_lock, history_lock, services, cache, rest>>

\* A model call raises: the `with` block releases the gate on the way out.
ModelRaise(t) ==
    /\ pc[t] \in {"in_cond", "in_gen"}
    /\ gpu0_lock' = Release(gpu0_lock, t)
    /\ since_cond' = [since_cond EXCEPT ![t] = "none"]
    /\ raised' = [raised EXCEPT ![t] = "model"]
    /\ pc' = [pc EXCEPT ![t] = "raised"]
    /\ UNCHANGED <<req, left, removed, load_i, put_now, job, got, sound, model_lock,
                   audio_cache_lock, history_lock, services, cache, rest>>

\* Where the route goes once a service call has returned its audio: the
\* next segment / text (after its _validate_text), the chunk loop of a
\* stream, the cache, or the answer.
AfterGenerate(t) ==
    IF data[t].of = "dialogue" THEN "dlg_append"
    ELSE IF Loops(req[t].kind) /\ left[t] > 1
    THEN IF req[t].bad = req[t].n - left[t] + 2 THEN "rejected"
         ELSE "load_check"
    ELSE IF req[t].kind \in StreamKinds THEN "stream"
    ELSE IF Caches(req[t].kind) THEN "cache_begin"
    ELSE "respond"

\* Mutant: the route's cache put is reached with the gate still held.
PostLockedKeepsGate(t) ==
    /\ pc[t] = "post_locked"
    /\ pc' = [pc EXCEPT ![t] = AfterGenerate(t)]
    /\ left' = [left EXCEPT ![t] = left[t] - 1]
    /\ UNCHANGED <<removed, req, load_i, since_cond, put_now, job, got, raised, sound,
                   locks, services, cache, rest>>

\* The segment of tts_dialogue's loop the thread is at.
CurrentSegment(t) == segments[t][Len(segments[t]) - left[t] + 1]

\* post_processing of the service call in progress: the segment's prosody
\* in tts_dialogue (`seg_prosody if seg_prosody else None`), none in the
\* requests that carry no options.
PostProcessing(t) ==
    IF data[t].of = "dialogue" THEN CurrentSegment(t).prosody ELSE << >>

\* TTSService._apply_post(wav, sr, post_processing)
_apply_post(a, post_processing) ==
    IF post_processing # << >>
    THEN apply_post_processing(a.wav, a.sr, post_processing)
    ELSE {Audio(a.wav, a.sr)}

\* _apply_post inside the gate, then `return` leaves the `with` block; an
\* exception of a stage leaves it too.
PostLocked(t) ==
    /\ pc[t] = "post_locked"
    /\ gpu0_lock' = Release(gpu0_lock, t)
    /\ \E a \in _apply_post(audio[t], PostProcessing(t)) :
          IF a.raised
          THEN /\ raised' = [raised EXCEPT ![t] = "post"]
               /\ pc' = [pc EXCEPT ![t] = "raised"]
               /\ UNCHANGED <<left, audio>>
          ELSE /\ audio' = [audio EXCEPT ![t] = [wav |-> a.wav, sr |-> a.sr]]
               /\ pc' = [pc EXCEPT ![t] = AfterGenerate(t)]
               /\ left' = [left EXCEPT ![t] = left[t] - 1]
               /\ UNCHANGED raised
    /\ UNCHANGED <<removed, req, load_i, since_cond, put_now, job, got, all_chunks, out,
                   calls, entry, route, model_lock, audio_cache_lock,
                   history_lock, services, cache, rest>>

\* Post-processing after the gate was released.
Post(t) ==
    /\ pc[t] = "post"
    /\ pc' = [pc EXCEPT ![t] = AfterGenerate(t)]
    /\ left' = [left EXCEPT ![t] = left[t] - 1]
    /\ UNCHANGED <<removed, req, load_i, since_cond, put_now, job, got, raised, sound,
                   locks, services, cache, rest>>

(* ------------------------- streaming responses ------------------------ *)
\* The field widths of struct.pack('<4sI4s4sIHHIIHH4sI', ...), in bytes.
HeaderWidths == <<4, 4, 4, 4, 4, 2, 2, 4, 4, 2, 2, 4, 4>>

\* create_wav_header(sr): the RIFF size is 0xFFFFFFFF and the data size
\* 0xFFFFFFFF - 36, each kept as its <<high, low>> 16-bit words.
create_wav_header(sr) ==
    [widths |-> HeaderWidths, riff_size |-> <<65535, 65535>>,
     data_size |-> <<65535, 65535 - 36>>, sample_rate |-> sr]

\* chunk_samples = max(int(sr * chunk_ms / 1000), 1) with chunk_ms = 100
ChunkSamples(sr) ==
    LET n == (sr * 100) \div 1000 IN IF n > 1 THEN n ELSE 1

\* Mutant: the slice does not advance, every chunk is wav[0:chunk_samples].
ChunkAtFirst(w, i, sr) ==
    SubSeq(w, 1, IF ChunkSamples(sr) < Len(w) THEN ChunkSamples(sr) ELSE Len(w))

\* wav[i:i + chunk_samples] of _chunk_audio, i counted from 0.
ChunkAt(w, i, sr) ==
    LET last == IF i + ChunkSamples(sr) < Len(w) THEN i + ChunkSamples(sr)
                ELSE Len(w)
    IN  SubSeq(w, i + 1, last)

\* np.clip(x * 32767, -32768, 32767).astype(np.int16) of one sample, the
\* sample being s halves: clipped, then truncated towards zero.
ToInt16(s) ==
    LET v == s * 32767 IN
    IF v >= 2 * 32767 THEN 32767
    ELSE IF v <= 2 * (-32768) THEN -32768
    ELSE IF v >= 0 THEN v \div 2
    ELSE -((-v) \div 2)

Pcm(chunk) == [i \in 1 .. Len(chunk) |-> ToInt16(chunk[i])]

\* header_sent of the route's generator.
HeaderSent(o) == \E i \in 1 .. Len(o) : o[i].type = "header"

\* Samples the service's generator has yielded so far.
Consumed(t) == Len(Concat(all_chunks[t]))

\* The first chunk arrives: the generator yields the header.
StreamHeader(t) ==
    /\ pc[t] = "stream"
    /\ Consumed(t) < Len(audio[t].wav)
    /\ ~HeaderSent(out[t])
    /\ out' = [out EXCEPT ![t] =
                  Append(out[t], [type |-> "header",
                                  data |-> create_wav_header(audio[t].sr)])]
    /\ UNCHANGED <<pc, req, left, removed, load_i, since_cond, put_now, job, got,
                   raised, audio, all_chunks, calls, entry, route, locks, services,
                   cache, rest>>

\* Mutant: a chunk is written without looking at header_sent.
StreamChunkNoHeader(t) ==
    /\ pc[t] = "stream"
    /\ Consumed(t) < Len(audio[t].wav)
    /\ LET chunk == ChunkAt(audio[t].wav, Consumed(t), audio[t].sr) IN
          /\ all_chunks' = [all_chunks EXCEPT ![t] = Append(all_chunks[t], chunk)]
          /\ out' = [out EXCEPT ![t] =
                        Append(out[t], [type |-> "chunk", data |-> Pcm(chunk)])]
    /\ UNCHANGED <<pc, req, left, removed, load_i, since_cond, put_now, job, got,
                   raised, audio, calls, entry, route, locks, services, cache, rest>>

\* One chunk of _chunk_audio: converted to int16, kept in all_chunks and
\* yielded.
StreamChunk(t) ==
    /\ pc[t] = "stream"
    /\ Consumed(t) < Len(audio[t].wav)
    /\ HeaderSent(out[t])
    /\ LET chunk == ChunkAt(audio[t].wav, Consumed(t), audio[t].sr) IN
          /\ all_chunks' = [all_chunks EXCEPT ![t] = Append(all_chunks[t], chunk)]
          /\ out' = [out EXCEPT ![t] =
                        Append(out[t], [type |-> "chunk", data |-> Pcm(chunk)])]
    /\ UNCHANGED <<pc, req, left, removed, load_i, since_cond, put_now, job, got,
                   raised, audio, calls, entry, route, locks, services, cache, rest>>

\* The service's generator is exhausted: `if all_chunks:` decides whether
\* the audio is stored and the JOB_ID marker sent.
StreamEnd(t) ==
    /\ pc[t] = "stream"
    /\ Consumed(t) = Len(audio[t].wav)
    /\ pc' = [pc EXCEPT ![t] =
                 IF all_chunks[t] # << >> THEN "cache_begin" ELSE "respond"]
    /\ UNCHANGED <<locals, locks, services, cache, rest>>

\* Mutant: the marker is sent although the audio was not stored.
StreamMarkerUnstored(t) ==
    /\ pc[t] \in {"cache_begin", "marker"}
    /\ out' = [out EXCEPT ![t] =
                  Append(out[t], [type |-> "job", data |-> nextJob])]
    /\ pc' = [pc EXCEPT ![t] = "respond"]
    /\ UNCHANGED <<req, left, removed, load_i, since_cond, put_now, job, got, raised,
                   audio, all_chunks, calls, entry, route, locks, services, cache,
                   rest>>

\* yield f"<!--JOB_ID:{job_id}-->".encode()
StreamMarker(t) ==
    /\ pc[t] = "marker"
    /\ out' = [out EXCEPT ![t] =
                  Append(out[t], [type |-> "job", data |-> job[t]])]
    /\ pc' = [pc EXCEPT ![t] = "respond"]
    /\ UNCHANGED <<req, left, removed, load_i, since_cond, put_now, job, got, raised,
                   audio, all_chunks, calls, entry, route, locks, services, cache,
                   rest>>

\* Mutant: the generator's handler goes on to store what it has.
StreamErrorStores(t) ==
    /\ pc[t] = "raised"
    /\ req[t].kind \in StreamKinds
    /\ out' = [out EXCEPT ![t] =
                  Append(out[t], [type |-> "error", data |-> raised[t]])]
    /\ pc' = [pc EXCEPT ![t] = "cache_begin"]
    /\ UNCHANGED <<req, left, removed, load_i, since_cond, put_now, job, got, raised,
                   audio, all_chunks, calls, entry, route, locks, services, cache,
                   rest>>

\* `except Exception` of a streaming route's generator:
\* yield f"<!--ERROR:{str(e)}-->".encode()
StreamError(t) ==
    /\ pc[t] = "raised"
    /\ req[t].kind \in StreamKinds
    /\ out' = [out EXCEPT ![t] =
                  Append(out[t], [type |-> "error", data |-> raised[t]])]
    /\ pc' = [pc EXCEPT ![t] = "respond"]
    /\ UNCHANGED <<req, left, removed, load_i, since_cond, put_now, job, got, raised,
                   audio, all_chunks, calls, entry, route, locks, services, cache,
                   rest>>

\* Mutant: the handler stores what was generated before the exception.
RouteExceptStoresPartial(t) ==
    /\ pc[t] = "raised"
    /\ req[t].kind \notin StreamKinds
    /\ pc' = [pc EXCEPT ![t] = "cache_begin"]
    /\ UNCHANGED <<locals, locks, services, cache, rest>>

\* `except Exception` of a route: the request is answered with status 500.
RouteExcept(t) ==
    /\ pc[t] = "raised"
    /\ req[t].kind \notin StreamKinds
    /\ Finish(t)
    /\ UNCHANGED <<since_cond, locks, services, cache, rest>>

\* The response is sent, the stream closed.
Respond(t) ==
    /\ pc[t] = "respond"
    /\ Finish(t)
    /\ UNCHANGED <<since_cond, locks, services, cache, rest>>

(* --------------------------- the audio cache -------------------------- *)
Ids(c) == {c[i].id : i \in 1 .. Len(c)}

Pos(c, id) == CHOOSE i \in 1 .. Len(c) : c[i].id = id

Expired(e, now) == now - e.ts > AUDIO_CACHE_TTL_SECONDS

\* _generated_audio[job_id] = (wav, sr, now): a new key goes to the end of
\* the OrderedDict, an existing key keeps its place.
Insert(c, id, a, now) ==
    LET e == [id |-> id, ts |-> now, wav |-> a.wav, sr |-> a.sr] IN
    IF id \in Ids(c) THEN [c EXCEPT ![Pos(c, id)] = e] ELSE Append(c, e)

\* expired = [k ... if now - ts > AUDIO_CACHE_TTL_SECONDS]; del each.
SweepExpired(c, now) == SelectSeq(c, LAMBDA e : ~Expired(e, now))

\* Mutant: popitem() with its default last=True removes the newest entry.
RECURSIVE EvictNewest(_)
EvictNewest(c) ==
    IF Len(c) > MAX_CACHED_AUDIO
    THEN EvictNewest(SubSeq(c, 1, Len(c) - 1)) ELSE c

\* while len(_generated_audio) > MAX_CACHED_AUDIO: popitem(last=False)
RECURSIVE EvictOldest(_)
EvictOldest(c) ==
    IF Len(c) > MAX_CACHED_AUDIO THEN EvictOldest(Tail(c)) ELSE c

Remove(c, id) == SelectSeq(c, LAMBDA e : e.id # id)

\* What the route hands to _cache_audio: (wav, sr) of the service, or
\* (np.concatenate(all_chunks), sample_rate) of a stream.
ToCache(t) ==
    IF req[t].kind \in StreamKinds
    THEN [wav |-> Concat(all_chunks[t]), sr |-> audio[t].sr]
    ELSE audio[t]

\* The route draws a uuid4 and calls _cache_audio, which reads the clock
\* before it asks for the cache lock.
CacheBegin(t) ==
    /\ pc[t] = "cache_begin"
    /\ job' = [job EXCEPT ![t] = nextJob]
    /\ nextJob' = nextJob + 1
    /\ made' = Append(made, ToCache(t))
    /\ put_now' = [put_now EXCEPT ![t] = clock]
    /\ pc' = [pc EXCEPT ![t] = "cache_acquire"]
    /\ UNCHANGED <<req, left, removed, load_i, since_cond, got, raised, sound, locks,
                   services, generated_audio, rest>>

\* Mutant: the insertion is made without the cache lock.
PutInsertNoLock(t) ==
    /\ pc[t] = "cache_acquire"
    /\ generated_audio' = Insert(generated_audio, job[t], ToCache(t), put_now[t])
    /\ pc' = [pc EXCEPT ![t] = "put_sweep"]
    /\ UNCHANGED <<locals, locks, services, made, nextJob, rest>>

\* `with _audio_cache_lock:` and the insertion.
PutInsert(t) ==
    /\ pc[t] = "cache_acquire"
    /\ audio_cache_lock = None
    /\ audio_cache_lock' = t
    /\ generated_audio' = Insert(generated_audio, job[t], ToCache(t), put_now[t])
    /\ pc' = [pc EXCEPT ![t] = "put_sweep"]
    /\ UNCHANGED <<locals, gpu0_lock, model_lock, history_lock, services,
                   made, nextJob, rest>>

\* The TTL sweep, the capacity eviction and the end of the `with` block.
PutSweepEvict(t) ==
    /\ pc[t] = "put_sweep"
    /\ generated_audio' = EvictOldest(SweepExpired(generated_audio, put_now[t]))
    /\ audio_cache_lock' = Release(audio_cache_lock, t)
    /\ pc' = [pc EXCEPT ![t] =
                 IF req[t].kind \in StreamKinds THEN "marker" ELSE "respond"]
    /\ UNCHANGED <<locals, gpu0_lock, model_lock, history_lock, services,
                   made, nextJob, rest>>

(* ------------------------- job identifiers ---------------------------- *)
HexDigits == {"0", "1", "2", "3", "4", "5", "6", "7", "8", "9",
              "a", "b", "c", "d", "e", "f"}

\* str(uuid.uuid4()) of the n-th job: 36 characters, 8-4-4-4-12.
Uuid(n) ==
    [i \in 1 .. 36 |->
        IF i \in {9, 14, 19, 24} THEN "-"
        ELSE IF i = 36 THEN <<"0", "1", "2", "3", "4", "5", "6", "7", "8", "9">>[n + 1]
        ELSE "0"]

\* The identifiers a client can send for job n.
IdShapes == {"canonical", "newline", "upper", "short"}

IdString(r) ==
    LET u == Uuid(r.id) IN
    CASE r.shape = "canonical" -> u
      [] r.shape = "newline" -> Append(u, "\n")
      [] r.shape = "upper" -> [u EXCEPT ![1] = "A"]
      [] r.shape = "short" -> SubSeq(u, 1, 8)

\* AUDIO_ID_PATTERN up to its closing `$`.
MatchesPattern(s) ==
    /\ Len(s) = 36
    /\ \A i \in 1 .. 36 :
          IF i \in {9, 14, 19, 24} THEN s[i] = "-" ELSE s[i] \in HexDigits

\* bool(AUDIO_ID_PATTERN.match(audio_id)): `$` matches at the end of the
\* string and also just before a newline that ends the string.
is_valid_audio_id(s) ==
    \/ MatchesPattern(s)
    \/ /\ Len(s) = 37
       /\ s[37] = "\n"
       /\ MatchesPattern(SubSeq(s, 1, 36))

\* The job whose key equals the string s, 0 when no job has that key.
KeyOf(s) ==
    IF \E n \in JobIds : Uuid(n) = s
    THEN CHOOSE n \in JobIds : Uuid(n) = s
    ELSE 0

(* ------------------------------ reads --------------------------------- *)
\* A handler that starts by calling get_cached_audio with a valid id.
StartRead(t, kind) ==
    /\ pc[t] = "idle"
    /\ started < budget
    /\ \E id \in JobIds :
          req' = [req EXCEPT ![t] = [NoReq EXCEPT !.kind = kind, !.id = id]]
    /\ pc' = [pc EXCEPT ![t] = "get_acquire"]
    /\ started' = started + 1
    /\ UNCHANGED <<left, removed, load_i, since_cond, put_now, job, got, raised, sound,
                   locks, services, cache, history, history_dir, clock, budget, outputs, pure>>

\* download_audio after its identifier check.
StartDownload(t) == StartRead(t, "download")

\* add_history, which calls _persist_audio before it takes the history lock.
StartAddHistory(t) == StartRead(t, "history_add")

\* download_audio, get_history_audio and tts_similarity as they receive the
\* identifier (for tts_similarity: generated_audio_id, with a reference
\* audio that exists).
StartLookup(t) ==
    /\ pc[t] = "idle"
    /\ started < budget
    /\ \E kind \in {"download", "history_audio", "similarity"},
          id \in JobIds, shape \in IdShapes :
          req' = [req EXCEPT ![t] =
                     [NoReq EXCEPT !.kind = kind, !.id = id, !.shape = shape]]
    /\ pc' = [pc EXCEPT ![t] = "check_id"]
    /\ started' = started + 1
    /\ UNCHANGED <<left, removed, load_i, since_cond, put_now, job, got, raised, sound,
                   locks, services, cache, history, history_dir, clock, budget, outputs, pure>>

\* `if not is_valid_audio_id(job_id): return ..., 400` of download_audio and
\* get_history_audio; tts_similarity checks ref_audio_id only and hands
\* generated_audio_id to get_cached_audio as it came.
CheckId(t) ==
    /\ pc[t] = "check_id"
    /\ pc' = [pc EXCEPT ![t] =
                 IF /\ req[t].kind \in {"download", "history_audio"}
                    /\ ~is_valid_audio_id(IdString(req[t]))
                 THEN "rejected" ELSE "get_acquire"]
    /\ UNCHANGED <<locals, locks, services, cache, rest>>

\* get_cached_audio: `with _audio_cache_lock:`.
GetAcquire(t) ==
    /\ pc[t] = "get_acquire"
    /\ audio_cache_lock = None
    /\ audio_cache_lock' = t
    /\ pc' = [pc EXCEPT ![t] = "get_body"]
    /\ UNCHANGED <<locals, gpu0_lock, model_lock, history_lock, services,
                   cache, rest>>

\* Mutant: get without the TTL test.
GetResultNoTTL(c, id, now) == IF id \in Ids(c) THEN "found" ELSE "notfound"

\* What get_cached_audio answers for id at time now.
GetResult(c, id, now) ==
    IF id \notin Ids(c) THEN "notfound"
    ELSE IF Expired(c[Pos(c, id)], now) THEN "notfound"
    ELSE "found"

\* Mutant: get hands out the sample rate of the newest entry.
GetEntryLastRate(c, id, now) ==
    IF GetResult(c, id, now) = "found"
    THEN [wav |-> c[Pos(c, id)].wav, sr |-> c[Len(c)].sr]
    ELSE NoAudio

\* return wav, sr
GetEntry(c, id, now) ==
    IF GetResult(c, id, now) = "found"
    THEN [wav |-> c[Pos(c, id)].wav, sr |-> c[Pos(c, id)].sr]
    ELSE NoAudio

\* Mutant: an access-refreshing get (move_to_end on a hit).
GetCacheRefresh(c, id, now) ==
    IF id \notin Ids(c) THEN c
    ELSE IF Expired(c[Pos(c, id)], now) THEN Remove(c, id)
    ELSE Append(Remove(c, id), c[Pos(c, id)])

\* What get_cached_audio leaves in the cache.
GetCache(c, id, now) ==
    IF id \in Ids(c) /\ Expired(c[Pos(c, id)], now) THEN Remove(c, id) ELSE c

\* _persist_audio after get_cached_audio has answered: nothing without an
\* entry, else sf.write unless the file is there already.
Persisted(dir, audio_id, answer) ==
    IF answer = "found" THEN dir \cup {audio_id} ELSE dir

\* The body of get_cached_audio and the end of its `with` block; in
\* add_history the caller is _persist_audio, which goes on to write the file.
GetBody(t) ==
    /\ pc[t] = "get_body"
    /\ LET key == KeyOf(IdString(req[t])) IN
          /\ got' = [got EXCEPT ![t] = GetResult(generated_audio, key, clock)]
          /\ entry' = [entry EXCEPT ![t] = GetEntry(generated_audio, key, clock)]
          /\ generated_audio' = GetCache(generated_audio, key, clock)
          /\ history_dir' =
                IF req[t].kind = "history_add"
                THEN Persisted(history_dir, req[t].id,
                               GetResult(generated_audio, key, clock))
                ELSE history_dir
    /\ audio_cache_lock' = Release(audio_cache_lock, t)
    /\ pc' = [pc EXCEPT ![t] =
                 IF req[t].kind = "history_add" THEN "hist_acquire" ELSE "respond"]
    /\ UNCHANGED <<req, left, removed, load_i, since_cond, put_now, job, raised,
                   audio, all_chunks, out, calls, route, gpu0_lock, model_lock,
                   history_lock, services, made, nextJob, history, clock,
                   started, budget, outputs, pure>>

(* ------------------------------ history ------------------------------- *)
\* add_history: `with _history_lock:` after _persist_audio has returned.
HistAcquire(t) ==
    /\ pc[t] = "hist_acquire"
    /\ history_lock = None
    /\ history_lock' = t
    /\ pc' = [pc EXCEPT ![t] = "hist_body"]
    /\ UNCHANGED <<locals, gpu0_lock, model_lock, audio_cache_lock, services,
                   cache, rest>>

\* while len(_history) > MAX_HISTORY: _history.pop(0)
RECURSIVE TrimHistory(_)
TrimHistory(h) == IF Len(h) > MAX_HISTORY THEN TrimHistory(Tail(h)) ELSE h

\* The items the trim pops, oldest first.
Popped(h) == SubSeq(h, 1, Len(h) - Len(TrimHistory(h)))

\* os.unlink of <audio_id>.wav for each of the items, where the file exists.
Unlink(dir, items) == dir \ {items[i].audio_id : i \in 1 .. Len(items)}

\* item of add_history: its audio_id, and whether _persist_audio found the
\* audio in the cache (so that its file was on disk when the item was made).
Item(t) == [audio_id |-> req[t].id, persisted |-> got[t] = "found"]

\* _history.append(item), the trim with the unlink of each popped item's
\* file, and the end of the `with` block.
HistBody(t) ==
    /\ pc[t] = "hist_body"
    /\ history' = TrimHistory(Append(history, Item(t)))
    /\ history_dir' = Unlink(history_dir, Popped(Append(history, Item(t))))
    /\ history_lock' = Release(history_lock, t)
    /\ pc' = [pc EXCEPT ![t] = "respond"]
    /\ UNCHANGED <<locals, gpu0_lock, model_lock, audio_cache_lock, services,
                   cache, clock, started, budget, outputs, pure>>

\* delete_history_item and clear_history as the request arrives.
StartRemove(t) ==
    /\ pc[t] = "idle"
    /\ started < budget
    /\ \E kind \in {"history_delete", "history_clear"} :
          req' = [req EXCEPT ![t] = [NoReq EXCEPT !.kind = kind]]
    /\ pc' = [pc EXCEPT ![t] = "remove_acquire"]
    /\ started' = started + 1
    /\ UNCHANGED <<left, removed, load_i, since_cond, put_now, job, got, raised,
                   sound, locks, services, cache, history, history_dir, clock,
                   budget, outputs, pure>>

\* `with _history_lock:` of delete_history_item and clear_history.
RemoveAcquire(t) ==
    /\ pc[t] = "remove_acquire"
    /\ history_lock = None
    /\ history_lock' = t
    /\ pc' = [pc EXCEPT ![t] = "remove_body"]
    /\ UNCHANGED <<locals, gpu0_lock, model_lock, audio_cache_lock, services,
                   cache, rest>>

\* h without its i-th item; h itself for i = 0.
Without(h, i) == [j \in 1 .. Len(h) - (IF i = 0 THEN 0 ELSE 1) |->
                    IF i = 0 \/ j < i THEN h[j] ELSE h[j + 1]]

\* The locked block.  An item's id is a uuid4 of its own, so item_id names
\* one item of the list (position i) or none (i = 0); clear_history takes
\* them all.
RemoveBody(t) ==
    /\ pc[t] = "remove_body"
    /\ IF req[t].kind = "history_clear"
       THEN /\ removed' = [removed EXCEPT ![t] = history]
            /\ history' = << >>
       ELSE \E i \in 0 .. Len(history) :
               /\ removed' = [removed EXCEPT ![t] =
                                  IF i = 0 THEN << >> ELSE <<history[i]>>]
               /\ history' = Without(history, i)
    /\ history_lock' = Release(history_lock, t)
    /\ pc' = [pc EXCEPT ![t] = "remove_unlink"]
    /\ UNCHANGED <<req, left, load_i, since_cond, put_now, job, got, raised,
                   sound, gpu0_lock, model_lock, audio_cache_lock, services,
                   cache, history_dir, clock, started, budget, outputs, pure>>

\* "Clean up audio file": outside the lock, the file of each removed item
\* is unlinked.
RemoveUnlink(t) ==
    /\ pc[t] = "remove_unlink"
    /\ history_dir' = Unlink(history_dir, removed[t])
    /\ pc' = [pc EXCEPT ![t] = "respond"]
    /\ UNCHANGED <<locals, locks, services, cache, history, clock, started,
                   budget, outputs, pure>>

(* ----------------------- ClearVoice enhancement ----------------------- *)
\* upload_audio / transcribe with denoise: reduce_noise calls enhance_file.
StartEnhance(t) ==
    /\ pc[t] = "idle"
    /\ started < budget
    /\ req' = [req EXCEPT ![t] = [NoReq EXCEPT !.kind = "upload"]]
    /\ pc' = [pc EXCEPT ![t] = "cv_acquire"]
    /\ started' = started + 1
    /\ UNCHANGED <<left, removed, load_i, since_cond, put_now, job, got, raised, sound,
                   locks, services, cache, history, history_dir, clock, budget, outputs, pure>>

\* enhance_file: `with self._model_lock:` and the call of self.model, which
\* is None (and raises) when the service was never loaded.
EnhanceAcquire(t) ==
    /\ pc[t] = "cv_acquire"
    /\ model_lock = None
    /\ IF loaded["cv"]
       THEN /\ model_lock' = t
            /\ pc' = [pc EXCEPT ![t] = "in_enhance"]
            /\ UNCHANGED raised
       ELSE /\ UNCHANGED model_lock
            /\ raised' = [raised EXCEPT ![t] = "enhance"]
            /\ pc' = [pc EXCEPT ![t] = "raised"]
    /\ UNCHANGED <<req, left, removed, load_i, since_cond, put_now, job, got, sound,
                   gpu0_lock, audio_cache_lock, history_lock, services, cache,
                   rest>>

\* The enhancement returns and the `with` block ends.
EnhanceReturn(t) ==
    /\ pc[t] = "in_enhance"
    /\ model_lock' = Release(model_lock, t)
    /\ pc' = [pc EXCEPT ![t] = "respond"]
    /\ UNCHANGED <<locals, gpu0_lock, audio_cache_lock, history_lock, services,
                   cache, rest>>

(* ------------------------------- time --------------------------------- *)
Tick ==
    /\ clock < MaxClock
    /\ clock' = clock + 1
    /\ UNCHANGED <<pc, locals, locks, services, cache, history, history_dir, started,
                   budget, outputs, pure>>


(* ------------------------------------------------------------------------ *)
(* routes/tts.py: _extract_post_processing and tts_dialogue in full         *)
(* ------------------------------------------------------------------------ *)
\* _extract_post_processing(data); an empty options stands for None too.
_extract_post_processing(body) ==
    LET pitch == IF Present(body, "pitch_shift") THEN ToFloat(body["pitch_shift"]) ELSE Returned(0)
        speed == IF Present(body, "speed") THEN ToFloat(body["speed"]) ELSE Returned(1000)
        vol == Get(body, "volume_normalize", Null)
        rate == IF Present(body, "sample_rate") THEN ToInt(body["sample_rate"]) ELSE Returned(0)
    IN  IF pitch.raised THEN Rejected("numeric", "pitch_shift")
        ELSE IF ~(LessEq(0 - 12000, pitch.value) /\ LessEq(pitch.value, 12000))
            THEN Rejected("range", "pitch_shift")
        ELSE IF speed.raised THEN Rejected("numeric", "speed")
        ELSE IF Present(body, "speed")
                /\ ~(LessEq(500, speed.value) /\ LessEq(speed.value, 2000))
            THEN Rejected("range", "speed")
        ELSE IF vol.form = "num"
                /\ ~(LessEq(0 - 24000, vol.n) /\ LessEq(vol.n, 0 - 6000))
            THEN Rejected("range", "volume_normalize")
        ELSE IF rate.raised THEN Rejected("numeric", "sample_rate")
        ELSE IF Present(body, "sample_rate")
                /\ (rate.value \div 1000) \notin VALID_SAMPLE_RATES
            THEN Rejected("range", "sample_rate")
        ELSE [error |-> NoError,
              params |->
                  (IF Present(body, "pitch_shift") /\ Abs(pitch.value) >= 10
                   THEN "pitch_shift" :> Num(pitch.value) ELSE << >>)
                  @@ (IF Present(body, "speed") /\ Abs(speed.value - 1000) >= 10
                      THEN "speed" :> Num(speed.value) ELSE << >>)
                  @@ (IF vol = True THEN "volume_normalize" :> Num(0 - 16000)
                      ELSE IF vol.form = "num" THEN "volume_normalize" :> Num(vol.n)
                      ELSE << >>)
                  @@ (IF Present(body, "sample_rate")
                      THEN "sample_rate" :> Num(rate.value) ELSE << >>)]

\* A text of MAX_TEXT_LENGTH + 1 characters, kept by its name.
LongText == "LONG"

\* _validate_text(text) finds nothing wrong.
TextOk(text) == text # "" /\ text # LongText

\* A prosody dictionary of the compiler as the values the route passes on.
AsJson(prosody) == [k \in DOMAIN prosody |-> Num(prosody[k])]

Compiled(segs) ==
    [i \in 1 .. Len(segs) |->
        IF segs[i].type = "speech"
        THEN [segs[i] EXCEPT !.prosody = AsJson(segs[i].prosody)]
        ELSE segs[i]]

\* <speak><prosody rate="300%">Hi</prosody></speak>
FastDoc ==
    [parses |-> TRUE, text |-> "",
     children |-> << [tag |-> "prosody",
                      attrs |-> ("rate" :> Lex("int", 300000, <<"%">>)),
                      text |-> "Hi", tail |-> "", children |-> << >>] >>]

\* <speak><prosody volume="silent">Hi</prosody><break time="300ms"/>Yo</speak>
QuietDoc ==
    [parses |-> TRUE, text |-> "",
     children |-> << [tag |-> "prosody",
                      attrs |-> ("volume" :> Lex("word", 0, <<"s", "i", "l", "e", "n", "t">>)),
                      text |-> "Hi", tail |-> "", children |-> << >>],
                     [tag |-> "break",
                      attrs |-> ("time" :> Lex("int", 300000, <<"m", "s">>)),
                      text |-> "", tail |-> "Yo", children |-> << >>] >>]

\* An explicit segment of the request body.
Said(text, prosody) ==
    [type |-> "speech", text |-> text, speaker |-> "None", language |-> "None",
     instruct |-> "None", prosody |-> prosody]

\* A body of POST /api/tts/dialogue: a document or explicit segments,
\* request-level options and parameters, the silence gap.
Body(ssml, segs, fields, gap) ==
    [of |-> "dialogue", ssml |-> ssml, segments |-> segs, fields |-> fields,
     silence_gap_ms |-> gap]

DialogueBodies ==
    {Body(<<ExampleDoc>>, << >>, << >>, 300),
     Body(<<ExampleDoc>>, << >>, "speed" :> Num(3000), 300),
     Body(<<ExampleDoc>>, << >>, "temperature" :> Num(5000), 300),
     Body(<<Unparsable>>, << >>, << >>, 300),
     Body(<<FastDoc>>, << >>, << >>, 0),
     Body(<<QuietDoc>>, << >>, "speed" :> Num(1500), 0),
     Body(<< >>, << >>, << >>, 300),
     Body(<< >>, <<Said("Hi", "pitch_shift" :> Num(50000))>>, << >>, 300),
     Body(<< >>, <<Said("", << >>), Break(100), Said("Yo", << >>),
                   Break(0 - 1000)>>, << >>, 0),
     Body(<< >>, <<Said("Hi", << >>), Said(LongText, << >>)>>, << >>, 0),
     Body(<< >>, <<Break(500)>>, << >>, 300),
     Body(<< >>, <<Break(100), Said("Hi", << >>), Break(200)>>, << >>, 0)}

\* tts_dialogue as it receives the body.
StartDialogue(t) ==
    /\ pc[t] = "idle"
    /\ started < budget
    /\ \E body \in DialogueBodies : data' = [data EXCEPT ![t] = body]
    /\ req' = [req EXCEPT ![t] = [NoReq EXCEPT !.kind = "dialogue"]]
    /\ pc' = [pc EXCEPT ![t] = "dlg_parse"]
    /\ started' = started + 1
    /\ UNCHANGED <<left, removed, load_i, since_cond, put_now, job, got, raised, audio,
                   all_chunks, out, calls, entry, segments, all_audio,
                   sample_rate, ref_audio_paths, locks, services, cache, history, history_dir,
                   clock, budget, outputs, pure>>

\* Mutant: a document that cannot be parsed is spoken as it stands.
SegmentsOfBodyLenient(body) ==
    IF body.ssml # << >>
    THEN LET parsed == parse_ssml(body.ssml[1]) IN
         IF parsed.raised
         THEN [error |-> FALSE, segments |-> <<Said("Hi", << >>)>>]
         ELSE [error |-> FALSE, segments |-> Compiled(parsed.segments)]
    ELSE IF body.segments # << >>
        THEN [error |-> FALSE, segments |-> body.segments]
    ELSE [error |-> TRUE, segments |-> << >>]

\* `if ssml_text: ... elif segments: ... else: 400`
SegmentsOfBody(body) ==
    IF body.ssml # << >>
    THEN LET parsed == parse_ssml(body.ssml[1]) IN
         IF parsed.raised
         THEN [error |-> TRUE, segments |-> << >>]
         ELSE [error |-> FALSE, segments |-> Compiled(parsed.segments)]
    ELSE IF body.segments # << >>
        THEN [error |-> FALSE, segments |-> body.segments]
    ELSE [error |-> TRUE, segments |-> << >>]

\* The checks of tts_dialogue in front of its loop: the document is
\* compiled, the request-level options and parameters are extracted.
DialogueParse(t) ==
    /\ pc[t] = "dlg_parse"
    /\ LET parsed == SegmentsOfBody(data[t]) IN
       IF \/ parsed.error
          \/ _extract_post_processing(data[t].fields).error # NoError
          \/ _extract_inference_params(data[t].fields).error # NoError
       THEN /\ pc' = [pc EXCEPT ![t] = "rejected"]
            /\ req' = [req EXCEPT ![t].ok = "bad_field"]
            /\ UNCHANGED <<segments, left>>
       ELSE /\ pc' = [pc EXCEPT ![t] = "dlg_segment"]
            /\ segments' = [segments EXCEPT ![t] = parsed.segments]
            /\ left' = [left EXCEPT ![t] = Len(parsed.segments)]
            /\ UNCHANGED req
    /\ UNCHANGED <<removed, load_i, since_cond, put_now, job, got, raised, audio,
                   all_chunks, out, calls, entry, data, all_audio, sample_rate,
                   ref_audio_paths, locks, services, cache, rest>>

\* np.zeros(n, dtype=np.float32)
Zeros(n) == [i \in 1 .. n |-> 0]

\* An element of all_audio: the waveform, with the segment it belongs to and
\* the model call that made it (0: silence).
Piece(seg, call, wav) == [seg |-> seg, call |-> call, wav |-> wav]

\* The head of the loop `for seg in segments`: a break appends silence once
\* a rate is known, an empty text is skipped, a text that fails
\* _validate_text ends the request with 400, any other text goes to
\* tts_service.generate_custom.
DialogueSegment(t) ==
    /\ pc[t] = "dlg_segment"
    /\ left[t] > 0
    /\ LET seg == CurrentSegment(t)
           at == Len(segments[t]) - left[t] + 1
       IN  IF seg.type = "break"
           THEN IF sample_rate[t] # 0 /\ seg.duration_ms < 0
                THEN /\ pc' = [pc EXCEPT ![t] = "raised"]
                     /\ raised' = [raised EXCEPT ![t] = "route"]
                     /\ UNCHANGED <<req, left, audio, all_audio>>
                ELSE /\ all_audio' = [all_audio EXCEPT ![t] =
                            IF sample_rate[t] # 0
                            THEN Append(@, Piece(at, 0,
                                     Zeros((sample_rate[t] * seg.duration_ms) \div 1000)))
                            ELSE @]
                     /\ left' = [left EXCEPT ![t] = left[t] - 1]
                     /\ UNCHANGED <<pc, req, raised, audio>>
           ELSE IF seg.text = ""
           THEN /\ left' = [left EXCEPT ![t] = left[t] - 1]
                /\ UNCHANGED <<pc, req, raised, audio, all_audio>>
           ELSE IF ~TextOk(seg.text)
           THEN /\ pc' = [pc EXCEPT ![t] = "rejected"]
                /\ req' = [req EXCEPT ![t].ok = "bad_field"]
                /\ UNCHANGED <<left, raised, audio, all_audio>>
           ELSE /\ pc' = [pc EXCEPT ![t] = "load_check"]
                /\ audio' = [audio EXCEPT ![t] = NoAudio]
                /\ UNCHANGED <<req, left, raised, all_audio>>
    /\ UNCHANGED <<removed, load_i, since_cond, put_now, job, got, all_chunks, out, calls,
                   entry, data, segments, sample_rate, ref_audio_paths, locks,
                   services, cache, rest>>

\* Mutant: the new audio is put in front of what was generated before.
AddAudioInFront(pieces, piece, gap) == <<piece>> \o gap \o pieces

\* all_audio.append(wav), and the silence gap behind it when there is one.
AddAudio(pieces, piece, gap) == pieces \o <<piece>> \o gap

\* generate_custom has returned: the waveform is brought to the rate of the
\* first segment and appended, the silence gap behind it.
DialogueAppend(t) ==
    /\ pc[t] = "dlg_append"
    /\ LET rate == IF sample_rate[t] = 0 THEN audio[t].sr ELSE sample_rate[t]
           at == Len(segments[t]) - left[t]
           gap_ms == data[t].silence_gap_ms
       IN  /\ sample_rate' = [sample_rate EXCEPT ![t] = rate]
           /\ \E a \in resample_audio(audio[t].wav, audio[t].sr, rate) :
                 all_audio' = [all_audio EXCEPT ![t] =
                     AddAudio(@, Piece(at, calls[t], a.wav),
                              IF gap_ms > 0
                              THEN <<Piece(at, 0, Zeros((rate * gap_ms) \div 1000))>>
                              ELSE << >>)]
    /\ pc' = [pc EXCEPT ![t] = "dlg_segment"]
    /\ UNCHANGED <<req, left, removed, load_i, since_cond, put_now, job, got, raised,
                   audio, all_chunks, out, calls, entry, data, segments,
                   ref_audio_paths, locks, services, cache, rest>>

\* np.all(wav == 0)
AllZero(wav) == \A i \in 1 .. Len(wav) : wav[i] = 0

Waves(pieces) == [i \in 1 .. Len(pieces) |-> pieces[i].wav]

\* The end of the loop: 400 when nothing was appended; a last element of
\* zeros is dropped, the rest concatenated, the request-level
\* post-processing applied.
DialogueCombine(t) ==
    /\ pc[t] = "dlg_segment"
    /\ left[t] = 0
    /\ IF all_audio[t] = << >>
       THEN /\ pc' = [pc EXCEPT ![t] = "rejected"]
            /\ req' = [req EXCEPT ![t].ok = "bad_field"]
            /\ UNCHANGED <<raised, audio, all_audio, sample_rate>>
       ELSE LET kept == IF /\ Len(all_audio[t]) > 1
                           /\ AllZero(all_audio[t][Len(all_audio[t])].wav)
                        THEN SubSeq(all_audio[t], 1, Len(all_audio[t]) - 1)
                        ELSE all_audio[t]
                post_processing == _extract_post_processing(data[t].fields).params
            IN  /\ all_audio' = [all_audio EXCEPT ![t] = kept]
                /\ UNCHANGED req
                /\ \E a \in _apply_post([wav |-> Concat(Waves(kept)),
                                         sr |-> sample_rate[t]], post_processing) :
                      IF a.raised
                      THEN /\ pc' = [pc EXCEPT ![t] = "raised"]
                           /\ raised' = [raised EXCEPT ![t] = "route"]
                           /\ UNCHANGED <<audio, sample_rate>>
                      ELSE /\ pc' = [pc EXCEPT ![t] = "cache_begin"]
                           /\ audio' = [audio EXCEPT ![t] = [wav |-> a.wav, sr |-> a.sr]]
                           /\ sample_rate' = [sample_rate EXCEPT ![t] = a.sr]
                           /\ UNCHANGED raised
    /\ UNCHANGED <<left, removed, load_i, since_cond, put_now, job, got, all_chunks, out,
                   calls, entry, data, segments, ref_audio_paths, locks,
                   services, cache, rest>>

(* ------------------------------------------------------------------------ *)
(* routes/tts.py: _resolve_reference_audio                                  *)
(* ------------------------------------------------------------------------ *)
\* An identifier of the request body, as the string IdString gives it.
RefId(n, shape) == [id |-> n, shape |-> shape]

\* The reference recordings in UPLOAD_FOLDER, by the name in front of
\* ".wav".
Uploads == {Uuid(1)}

\* os.path.exists(os.path.join(UPLOAD_FOLDER, f"{audio_id}.wav"))
Exists(audio_id) == IdString(audio_id) \in Uploads

\* The place of the first identifier of ids that fails Good: 0 when there
\* is none (a `for` loop that returns at the first failure).
FirstThat(ids, Good(_)) ==
    LET bad == {i \in 1 .. Len(ids) : ~Good(ids[i])}
    IN  IF bad = {} THEN 0 ELSE CHOOSE i \in bad : \A j \in bad : i <= j

\* _resolve_reference_audio(data, required): the identifiers of
\* ref_audio_ids when that is a list with elements, else the single
\* ref_audio_id; 400 for the first that fails the shape check, 404 for the
\* first without a file, else every identifier in order.
_resolve_reference_audio(body, required) ==
    LET listed == IF body.ref_audio_ids.form = "list" THEN body.ref_audio_ids.ids ELSE << >>
        ref_audio_ids == IF listed = << >> /\ body.ref_audio_id # << >>
                         THEN body.ref_audio_id ELSE listed
        Valid(audio_id) == is_valid_audio_id(IdString(audio_id))
    IN  IF required /\ ref_audio_ids = << >>
            THEN [error |-> "required", status |-> 400, paths |-> << >>]
        ELSE IF FirstThat(ref_audio_ids, Valid) # 0
            THEN [error |-> "invalid", status |-> 400, paths |-> << >>]
        ELSE IF FirstThat(ref_audio_ids, Exists) # 0
            THEN [error |-> "missing", status |-> 404, paths |-> << >>]
        ELSE [error |-> "none", status |-> 200, paths |-> ref_audio_ids]

\* ref_audio_ids of a body: absent, a list, or a bare string.
NoList == [form |-> "absent", ids |-> << >>]
ListOf(ids) == [form |-> "list", ids |-> ids]
BareString(audio_id) == [form |-> "string", ids |-> <<audio_id>>]

\* The bodies of a route with reference audio: the list, the single
\* identifier of the older clients (a sequence of none or one).
RefBodies ==
    LET stored == RefId(1, "canonical")
        missing == RefId(2, "canonical")
        short == RefId(1, "short")
        newline == RefId(1, "newline")
    IN  {[of |-> "refs", ref_audio_ids |-> l, ref_audio_id |-> s] :
            l \in {NoList, ListOf(<< >>), ListOf(<<stored>>),
                   ListOf(<<stored, stored>>), ListOf(<<stored, missing>>),
                   ListOf(<<short, missing>>), ListOf(<<newline>>),
                   BareString(stored), BareString(short)},
            s \in {<< >>, <<stored>>, <<missing>>, <<short>>}}

\* tts_clone (a reference is required) and tts_custom as they receive the
\* body; the text and the speaker are in order.
StartRefRequest(t) ==
    /\ pc[t] = "idle"
    /\ started < budget
    /\ \E body \in RefBodies : data' = [data EXCEPT ![t] = body]
    /\ \E kind \in {"clone", "custom"} :
          req' = [req EXCEPT ![t] = [NoReq EXCEPT !.kind = kind, !.n = 1]]
    /\ left' = [left EXCEPT ![t] = 1]
    /\ pc' = [pc EXCEPT ![t] = "resolve_refs"]
    /\ started' = started + 1
    /\ UNCHANGED <<removed, load_i, since_cond, put_now, job, got, raised, audio,
                   all_chunks, out, calls, entry, segments, all_audio,
                   sample_rate, ref_audio_paths, locks, services, cache, history, history_dir,
                   clock, budget, outputs, pure>>

\* ref_audio_paths, ref_texts, ref_err = _resolve_reference_audio(data,
\* required); `if ref_err: return jsonify(...), ref_err[1]`.
ResolveRefs(t) ==
    /\ pc[t] = "resolve_refs"
    /\ LET r == _resolve_reference_audio(data[t], req[t].kind = "clone") IN
       IF r.error # "none"
       THEN /\ pc' = [pc EXCEPT ![t] = "rejected"]
            /\ req' = [req EXCEPT ![t].ok =
                          IF r.status = 404 THEN "ref_missing" ELSE "bad_field"]
            /\ UNCHANGED ref_audio_paths
       ELSE /\ pc' = [pc EXCEPT ![t] = "load_check"]
            /\ req' = [req EXCEPT ![t].ref = r.paths # << >>]
            /\ ref_audio_paths' = [ref_audio_paths EXCEPT ![t] = r.paths]
    /\ UNCHANGED <<left, removed, load_i, since_cond, put_now, job, got, raised, audio,
                   all_chunks, out, calls, entry, data, segments, all_audio,
                   sample_rate, locks, services, cache, rest>>

(* ------------------------------------------------------------------------ *)
(* The client of a streaming response                                       *)
(* ------------------------------------------------------------------------ *)
\* The route's generator is suspended at a `yield`: the server is writing
\* the header, a chunk or a marker to the client.
Suspended(t) ==
    /\ req[t].kind \in StreamKinds
    /\ pc[t] \in {"stream", "respond"}
    /\ out[t] # << >>

\* Mutant: the route's handler catches the GeneratorExit as it catches an
\* exception of the model.
DisconnectCaught(t) ==
    /\ Suspended(t)
    /\ raised' = [raised EXCEPT ![t] = "GeneratorExit"]
    /\ pc' = [pc EXCEPT ![t] = "raised"]
    /\ UNCHANGED <<req, left, removed, load_i, since_cond, put_now, job, got, audio,
                   all_chunks, out, calls, entry, route, locks, services, cache,
                   rest>>

\* The client goes away while the server writes: the server closes the
\* generator, GeneratorExit is raised at the `yield`, and `except
\* Exception` does not catch it.
Disconnect(t) ==
    /\ Suspended(t)
    /\ raised' = [raised EXCEPT ![t] = "GeneratorExit"]
    /\ pc' = [pc EXCEPT ![t] = "closed"]
    /\ UNCHANGED <<req, left, removed, load_i, since_cond, put_now, job, got, audio,
                   all_chunks, out, calls, entry, route, locks, services, cache,
                   rest>>

\* The closed generator is dropped.
Closed(t) ==
    /\ pc[t] = "closed"
    /\ Finish(t)
    /\ UNCHANGED <<since_cond, locks, services, cache, rest>>

(* ------------------------------------------------------------------------ *)
(* _cache_audio as a function of the cache                                  *)
(* ------------------------------------------------------------------------ *)
\* Mutant: dict.setdefault, an id that is present keeps its entry.
PutIfAbsent(c, id, a, now) ==
    EvictOldest(SweepExpired(IF id \in Ids(c) THEN c ELSE Insert(c, id, a, now), now))

\* The body of _cache_audio(job_id, wav, sr) under the cache lock, `now`
\* being the time it read on entry: the assignment, the sweep of the
\* expired entries, the capacity eviction.
Put(c, id, a, now) == EvictOldest(SweepExpired(Insert(c, id, a, now), now))

\* The entries a cache may hold before the call: any id, any timestamp.
EntriesBefore ==
    {[id |-> i, ts |-> ts, wav |-> Wave(1), sr |-> 10] :
        i \in 1 .. MAX_CACHED_AUDIO + 1, ts \in 0 .. MaxClock}

RECURSIVE CachesOf(_)
\* The caches of k entries with k different ids.
CachesOf(k) ==
    IF k = 0 THEN {<< >>}
    ELSE {Append(c, e) : c \in CachesOf(k - 1), e \in EntriesBefore}

\* The caches a put can find: at most MAX_CACHED_AUDIO entries (the cache
\* is over capacity only inside a put), no id twice.
CachesBefore ==
    {c \in UNION {CachesOf(k) : k \in 0 .. MAX_CACHED_AUDIO} :
        \A i, j \in 1 .. Len(c) : i # j => c[i].id # c[j].id}

\* One call of _cache_audio.
ApplyPut ==
    /\ input.of = "put"
    /\ result = NoResult
    /\ result' = [of |-> "put",
                  ret |-> Put(input.c, input.id, input.a, input.now)]
    /\ UNCHANGED <<pc, locals, locks, services, cache, history, history_dir, clock, started,
                   budget, outputs, input>>

InitPut ==
    /\ InitProgram({TRUE}, 0, OneOutput)
    /\ \E c \in CachesBefore, id \in 1 .. MAX_CACHED_AUDIO + 1,
          a \in TwoOutputs, now \in 0 .. MaxClock :
          input = [of |-> "put", c |-> c, id |-> id, a |-> a, now |-> now]

PutNext == ApplyPut

SpecPut == InitPut /\ [][PutNext]_vars
(* --------------------------- specifications --------------------------- *)
LoadSteps(t) ==
    \/ LoadCheck(t) \/ LoadAcquire(t) \/ LoadStepOk(t) \/ LoadStepRaise(t)

StreamSteps(t) ==
    \/ StreamHeader(t) \/ StreamChunk(t) \/ StreamEnd(t) \/ StreamMarker(t)

GateSteps(t) ==
    \/ GenAcquire(t) \/ CondOk(t) \/ GenCall(t) \/ GenOk(t) \/ ModelRaise(t)
    \/ PostLocked(t) \/ Post(t) \/ StreamSteps(t)

PutSteps(t) == CacheBegin(t) \/ PutInsert(t) \/ PutSweepEvict(t)

GetSteps(t) == GetAcquire(t) \/ GetBody(t)

HistSteps(t) == HistAcquire(t) \/ HistBody(t)

RemoveSteps(t) == RemoveAcquire(t) \/ RemoveBody(t) \/ RemoveUnlink(t)

EnhanceSteps(t) == EnhanceAcquire(t) \/ EnhanceReturn(t)

EndSteps(t) == RouteExcept(t) \/ StreamError(t) \/ Respond(t)

\* Every handler of the model after its checks, with the clock standing
\* still.
Next ==
    \E t \in Threads :
        \/ StartGenerate(t) \/ StartDownload(t) \/ StartAddHistory(t)
        \/ StartEnhance(t)
        \/ LoadSteps(t) \/ GateSteps(t) \/ PutSteps(t) \/ GetSteps(t)
        \/ HistSteps(t) \/ EnhanceSteps(t) \/ EndSteps(t)

Spec == Init /\ [][Next]_vars

\* Every handler again, for the claims about the locks alone.
InitLocks == InitWith(BOOLEAN, MaxLockRequests, OneOutput)

SpecLocks == InitLocks /\ [][Next]_vars

\* The generation endpoints and the enhancement, from a cold or a preloaded
\* server.
GateNext ==
    \E t \in Threads :
        \/ StartGenerate(t) \/ StartEnhance(t)
        \/ LoadSteps(t) \/ GateSteps(t) \/ PutSteps(t)
        \/ EnhanceSteps(t) \/ EndSteps(t)

SpecGate == Init /\ [][GateNext]_vars

\* The cache under puts (a preloaded server answering /api/tts/custom),
\* gets and the passing of time.
StartCustom(t) == StartOf(t, {"custom"})

CacheNext ==
    \/ Tick
    \/ \E t \in Threads :
        \/ StartCustom(t) \/ StartDownload(t)
        \/ LoadCheck(t) \/ GenAcquire(t) \/ CondOk(t) \/ GenCall(t) \/ GenOk(t)
        \/ PostLocked(t)
        \/ PutSteps(t) \/ GetSteps(t) \/ Respond(t)

InitCache == InitWith({TRUE}, MaxCacheRequests, OneOutput)

SpecCache == InitCache /\ [][CacheNext]_vars

\* One client generating (thread t1) and one downloading (thread t2), with
\* model outputs that differ from request to request.
DownloadNext ==
    \/ Tick
    \/ StartCustom("t1") \/ StartDownload("t2")
    \/ \E t \in Threads :
        \/ LoadCheck(t) \/ GenAcquire(t) \/ CondOk(t) \/ GenCall(t) \/ GenOk(t)
        \/ PostLocked(t)
        \/ PutSteps(t) \/ GetSteps(t) \/ Respond(t)

InitDownload == InitWith({TRUE}, MaxCacheRequests, TwoOutputs)

SpecDownload == InitDownload /\ [][DownloadNext]_vars

\* Two kinds of request on a server whose model calls always return.
StartLive(t) == StartOf(t, {"custom", "cb_stream"})

LiveStep(t) ==
    \/ StartLive(t)
    \/ LoadCheck(t) \/ LoadAcquire(t) \/ LoadStepOk(t)
    \/ GenAcquire(t) \/ CondOk(t) \/ GenCall(t) \/ GenOk(t)
    \/ PostLocked(t) \/ Post(t) \/ StreamSteps(t) \/ PutSteps(t)
    \/ Respond(t)

LiveNext == \E t \in Threads : LiveStep(t)

InitLive == InitWith(BOOLEAN, MaxLiveRequests, OneOutput)

\* The operating system lets every request thread that can run take its
\* next step.
SpecLive ==
    InitLive /\ [][LiveNext]_vars /\ \A t \in Threads : WF_vars(LiveStep(t))

\* /api/tts/custom/stream and /api/chatterbox/stream of a preloaded server,
\* for every model output.
StartStream(t) == StartOf(t, {"custom_stream", "cb_stream"})

StreamNext ==
    \E t \in Threads :
        \/ StartStream(t)
        \/ LoadCheck(t) \/ GenAcquire(t) \/ CondOk(t) \/ GenCall(t) \/ GenOk(t)
        \/ ModelRaise(t) \/ Post(t) \/ StreamSteps(t) \/ PutSteps(t)
        \/ StreamError(t) \/ Respond(t)

InitStream == InitWith({TRUE}, MaxStreamRequests, Outputs)

SpecStream == InitStream /\ [][StreamNext]_vars

\* The generation endpoints of a preloaded server from the arrival of the
\* request body.
CheckedNext ==
    \E t \in Threads :
        \/ StartRequest(t) \/ Validate(t) \/ Reject(t)
        \/ LoadCheck(t) \/ GateSteps(t) \/ PutSteps(t) \/ EndSteps(t)

InitChecked == InitWith({TRUE}, MaxCheckedRequests, OneOutput)

SpecChecked == InitChecked /\ [][CheckedNext]_vars

\* The endpoints that take a job identifier, beside /api/tts/custom.
LookupNext ==
    \E t \in Threads :
        \/ StartCustom(t) \/ StartLookup(t) \/ CheckId(t) \/ Reject(t)
        \/ LoadCheck(t) \/ GenAcquire(t) \/ CondOk(t) \/ GenCall(t) \/ GenOk(t)
        \/ PostLocked(t)
        \/ PutSteps(t) \/ GetSteps(t) \/ Respond(t)

InitLookup == InitWith({TRUE}, MaxLookupRequests, OneOutput)

SpecLookup == InitLookup /\ [][LookupNext]_vars


\* One client of /api/tts/dialogue (thread t1) beside one of
\* /api/tts/custom (thread t2), with model outputs that differ in length
\* and in rate.
DialogueNext ==
    \/ StartDialogue("t1") \/ StartCustom("t2")
    \/ \E t \in Threads :
        \/ DialogueParse(t) \/ DialogueSegment(t) \/ DialogueAppend(t)
        \/ DialogueCombine(t) \/ Reject(t)
        \/ LoadCheck(t) \/ GenAcquire(t) \/ CondOk(t) \/ GenCall(t) \/ GenOk(t)
        \/ ModelRaise(t) \/ PostLocked(t)
        \/ PutSteps(t) \/ RouteExcept(t) \/ Respond(t)

InitDialogue == InitWith({TRUE}, MaxDialogueRequests, TwoOutputs)

SpecDialogue == InitDialogue /\ [][DialogueNext]_vars

\* Clients of /api/tts/clone and /api/tts/custom that send reference audio.
RefsNext ==
    \E t \in Threads :
        \/ StartRefRequest(t) \/ ResolveRefs(t) \/ Reject(t)
        \/ LoadCheck(t) \/ GenAcquire(t) \/ CondOk(t) \/ GenCall(t) \/ GenOk(t)
        \/ ModelRaise(t) \/ PostLocked(t)
        \/ PutSteps(t) \/ RouteExcept(t) \/ Respond(t)

InitRefs == InitWith({TRUE}, MaxRefRequests, OneOutput)

SpecRefs == InitRefs /\ [][RefsNext]_vars

\* The streaming endpoints of a preloaded server with clients that may go
\* away, or stop reading, at any write.
StartClientStream(t) == StartOf(t, {"clone_stream", "custom_stream", "cb_stream"})

ClientNext ==
    \E t \in Threads :
        \/ StartClientStream(t)
        \/ LoadCheck(t) \/ GenAcquire(t) \/ CondOk(t) \/ GenCall(t) \/ GenOk(t)
        \/ ModelRaise(t) \/ Post(t) \/ StreamSteps(t) \/ PutSteps(t)
        \/ StreamError(t) \/ Respond(t)
        \/ Disconnect(t) \/ Closed(t)

\* An empty waveform and one of two chunks.
ClientOutputs == {[wav |-> Wave(0), sr |-> 10], [wav |-> Wave(2), sr |-> 10]}

InitClient == InitWith({TRUE}, MaxStreamRequests, ClientOutputs)

SpecClient == InitClient /\ [][ClientNext]_vars

\* The history endpoints beside /api/tts/custom, which fills the cache that
\* _persist_audio reads.
HistoryNext ==
    \E t \in Threads :
        \/ StartCustom(t) \/ StartAddHistory(t) \/ StartRemove(t)
        \/ LoadCheck(t) \/ GenAcquire(t) \/ CondOk(t) \/ GenCall(t) \/ GenOk(t)
        \/ PostLocked(t)
        \/ PutSteps(t) \/ GetSteps(t) \/ HistSteps(t) \/ RemoveSteps(t)
        \/ Respond(t)

InitHistory == InitWith({TRUE}, MaxHistoryRequests, OneOutput)

SpecHistory == InitHistory /\ [][HistoryNext]_vars
(* ============================== claims ================================ *)
OtherThreadsIdle(t) == \A u \in Threads \ {t} : pc[u] = "idle"

\* C1: under any interleaving of the single-shot, streaming, dialogue and
\* batch endpoints at most one thread at a time is inside a call into a
\* device-0 resident Qwen or Chatterbox model (loading included).
C1_GateMutualExclusion ==
    Cardinality({t \in Threads : pc[t] \in {"loading", "in_cond", "in_gen"}}) <= 1

\* A Qwen request is inside the model while a Chatterbox request waits for
\* the gate.
C1_Witness ==
    \E t, u \in Threads :
        /\ pc[t] = "in_gen" /\ req[t].kind \in TTSKinds
        /\ pc[u] = "gen_acquire" /\ req[u].kind \in CBKinds

\* C2: every inference on cuda:0, ClearVoice enhancement included, runs under
\* gpu0_lock, so an enhancement never overlaps a TTS generation on cuda:0.
C2_EnhanceNeverOverlapsTTS ==
    \A t, u \in Threads :
        pc[t] = "in_enhance" => pc[u] \notin {"loading", "in_cond", "in_gen"}

\* C3: every cache state observable outside put's critical section holds at
\* most MAX_CACHED_AUDIO entries: the cache is over capacity only while a
\* thread is between put's insertion and its sweep, holding the cache lock.
C3_CapacityOutsidePut ==
    Len(generated_audio) > MAX_CACHED_AUDIO =>
        \E t \in Threads : pc[t] = "put_sweep" /\ audio_cache_lock = t

\* The transient over-capacity state, with a get waiting for the lock.
C3_Witness ==
    /\ Len(generated_audio) = MAX_CACHED_AUDIO + 1
    /\ \E u \in Threads : pc[u] = "get_acquire"

\* C4: get never returns an entry older than the TTL; an expired entry that
\* no put has swept is answered not-found and removed by the get itself.
C4_GetNeverReturnsExpired ==
    [][\A t \in Threads :
          (pc[t] = "get_body" /\ pc'[t] # "get_body") =>
              LET id == req[t].id
                  hit == {i \in 1 .. Len(generated_audio) :
                              generated_audio[i].id = id}
                  old == {i \in hit :
                              clock - generated_audio[i].ts > AUDIO_CACHE_TTL_SECONDS}
              IN  /\ got'[t] = "found" => hit # {} /\ old = {}
                  /\ old # {} =>
                        /\ got'[t] = "notfound"
                        /\ \A j \in 1 .. Len(generated_audio') :
                              generated_audio'[j].id # id]_vars

\* The only job ever stored is gone after a download answered not-found:
\* no put could have removed it, the get did.
C4_Witness ==
    \E t \in Threads :
        /\ pc[t] = "respond" /\ req[t].kind = "download" /\ req[t].id = 1
        /\ got[t] = "notfound"
        /\ nextJob = 2 /\ generated_audio = << >>
        /\ OtherThreadsIdle(t)

\* C5: put's sweep removes exactly the entries older than the TTL (measured
\* against the time put sampled on entry); only if more than the capacity
\* remain are entries removed, oldest-inserted first, until the count equals
\* the capacity.  What is left is the last min(live, capacity) live entries,
\* in their order.
C5_SweepThenEvictOldest ==
    [][\A t \in Threads :
          (pc[t] = "put_sweep" /\ pc'[t] # "put_sweep") =>
              LET c == generated_audio
                  d == generated_audio'
                  live == {i \in 1 .. Len(c) :
                              ~(put_now[t] - c[i].ts > AUDIO_CACHE_TTL_SECONDS)}
                  keep == IF Cardinality(live) > MAX_CACHED_AUDIO
                          THEN MAX_CACHED_AUDIO ELSE Cardinality(live)
              IN  /\ Len(d) = keep
                  /\ \A j \in 1 .. Len(d) :
                        \E i \in live :
                            /\ c[i] = d[j]
                            /\ Cardinality({k \in live : k > i}) = Len(d) - j]_vars

\* With the clock at 0 nothing expires: MAX_CACHED_AUDIO + 1 jobs were put
\* and the first was evicted by capacity.
C5_Witness ==
    \E t \in Threads :
        /\ pc[t] = "respond" /\ job[t] = MAX_CACHED_AUDIO + 1
        /\ nextJob = MAX_CACHED_AUDIO + 2 /\ clock = 0
        /\ Len(generated_audio) = MAX_CACHED_AUDIO
        /\ \A i \in 1 .. Len(generated_audio) : generated_audio[i].id # 1
        /\ OtherThreadsIdle(t)

\* C6: get on a non-expired entry, or on a missing id, leaves the cache as it
\* was: same entries, same timestamps, same order.
C6_GetLeavesCacheUnchanged ==
    [][\A t \in Threads :
          (pc[t] = "get_body" /\ pc'[t] # "get_body") =>
              LET hit == {i \in 1 .. Len(generated_audio) :
                              generated_audio[i].id = req[t].id}
              IN  (\A i \in hit :
                      clock - generated_audio[i].ts <= AUDIO_CACHE_TTL_SECONDS)
                  => generated_audio' = generated_audio]_vars

\* A download found the entry that is first in the eviction order, and it
\* is still first.
C6_Witness ==
    \E t \in Threads :
        /\ pc[t] = "respond" /\ got[t] = "found"
        /\ Len(generated_audio) >= 2
        /\ generated_audio[1].id = req[t].id

Held(t) ==
    {l \in {"gpu0", "clearvoice", "cache", "history"} :
        \/ l = "gpu0" /\ gpu0_lock = t
        \/ l = "clearvoice" /\ model_lock = t
        \/ l = "cache" /\ audio_cache_lock = t
        \/ l = "history" /\ history_lock = t}

Wanted(t) ==
    IF pc[t] \in {"load_acquire", "gen_acquire"} THEN gpu0_lock
    ELSE IF pc[t] = "cv_acquire" THEN model_lock
    ELSE IF pc[t] \in {"cache_acquire", "get_acquire"} THEN audio_cache_lock
    ELSE IF pc[t] = "hist_acquire" THEN history_lock
    ELSE None

Blocked(t) == Wanted(t) # None

\* C7: no thread holds two locks at once, no thread asks for a lock while it
\* holds one (in particular not for gpu0_lock again), and whenever a thread
\* waits for a lock some thread can take a step.
C7_NoNestedLocksNoDeadlock ==
    /\ \A t \in Threads :
          /\ Cardinality(Held(t)) <= 1
          /\ pc[t] \in {"load_acquire", "gen_acquire", "cv_acquire",
                        "cache_acquire", "get_acquire", "hist_acquire"}
                => Held(t) = {}
    /\ (\E t \in Threads : Blocked(t)) =>
          \E u \in Threads : pc[u] # "idle" /\ ~Blocked(u)

\* One thread is in the gate while the other is in the cache's critical
\* section.
C7_Witness ==
    \E t, u \in Threads :
        /\ gpu0_lock = t /\ pc[t] = "in_gen"
        /\ audio_cache_lock = u /\ pc[u] = "put_sweep"

\* C8: with reference audio, generate_custom, generate_design and their
\* streaming variants build the conditioning and call generate in one
\* holding of the gate, and no other thread's model call falls in between.
C8_ConditioningAndGenerateInOneHolding ==
    \A t \in Threads :
        (pc[t] \in {"cond_built", "in_gen"} /\ NeedsConditioning(req[t])) =>
            gpu0_lock = t /\ since_cond[t] = "clean"

\* A streaming request has built its conditioning and another request is
\* waiting for the gate.
C8_Witness ==
    \E t, u \in Threads :
        /\ pc[t] = "cond_built" /\ req[t].kind = "custom_stream"
        /\ pc[u] = "gen_acquire"

\* C9: the loading body of a service completes at most once and runs under
\* the gate; a call made when the flag is set returns from load_models
\* without loading and without touching the gate.
C9_LoadOnceUnderGate ==
    /\ [](/\ \A s \in {"tts", "cb"} : loads[s] <= 1
          /\ \A t \in Threads : pc[t] = "loading" => gpu0_lock = t)
    /\ [][\A t \in Threads :
             (pc[t] = "load_check" /\ loaded[ServiceOf(req[t].kind)]
              /\ pc'[t] # "load_check") =>
                 /\ pc'[t] = "gen_acquire"
                 /\ gpu0_lock' = gpu0_lock
                 /\ loads' = loads]_vars

\* A first caller that lost the race: it passed the unlocked test, and the
\* flag was set while it waited for the gate.
C9_Witness ==
    \E t \in Threads :
        /\ pc[t] = "load_acquire" /\ req[t].kind \in TTSKinds
        /\ loaded["tts"] /\ loads["tts"] = 1

\* C10: when loading raises, the gate is free of the loader, the flag is
\* still false and the exception is on its way to the caller; a later
\* load_models call that finds the flag false goes for the gate to load.
C10_FailedLoadLeavesFlagUnset ==
    /\ [][\A t \in Threads :
             (pc[t] = "loading" /\ pc'[t] = "raised") =>
                 /\ gpu0_lock' # t
                 /\ ~loaded'[ServiceOf(req[t].kind)]
                 /\ raised'[t] = "load"]_vars
    /\ [][\A t \in Threads :
             (pc[t] = "load_check" /\ ~loaded[ServiceOf(req[t].kind)]
              /\ pc'[t] # "load_check") => pc'[t] = "load_acquire"]_vars
    /\ [](\A t \in Threads : pc[t] = "raised" => gpu0_lock # t)

\* After a failed load of the Qwen models another request is loading them.
C10_Witness ==
    \E t, u \in Threads :
        /\ pc[u] = "raised" /\ raised[u] = "load" /\ req[u].kind \in TTSKinds
        /\ pc[t] = "loading" /\ req[t].kind \in TTSKinds
        /\ ~loaded["tts"]


InModelCall(t) == pc[t] \in {"in_cond", "in_gen"}

\* C11: when a model call raises while the gate is held, the gate is free of
\* the caller by the time the exception is at the route, the service hands
\* the exception on (the request is in the route's handler, or its stream
\* has ended with the error marker), and no further model call is made for
\* that request.
C11_ModelRaisePropagatesNoRetry ==
    /\ [](\A t \in Threads :
             raised[t] = "model" =>
                 /\ gpu0_lock # t
                 /\ \/ pc[t] = "raised"
                    \/ /\ req[t].kind \in StreamKinds
                       /\ pc[t] = "respond"
                       /\ out[t][Len(out[t])].type = "error")
    /\ [][\A t \in Threads :
             /\ (InModelCall(t) /\ raised'[t] # raised[t]) =>
                    raised'[t] = "model" /\ pc'[t] = "raised"
             /\ raised[t] = "model" => calls'[t] <= calls[t]]_vars

\* The model raised on the second segment of a dialogue while the other
\* thread, which was waiting, is now inside the gate.
C11_Witness ==
    \E t, u \in Threads :
        /\ pc[t] = "raised" /\ raised[t] = "model"
        /\ req[t].kind = "dialogue" /\ calls[t] = 2
        /\ gpu0_lock = u /\ InModelCall(u)

\* C12: on a server whose model calls all return, every request that was
\* submitted completes with its audio stored under a job id, and a request
\* enters its model call only when no other request is inside one.
C12_ConcurrentRequestsBothComplete ==
    /\ \A t \in Threads :
          (pc[t] = "load_check") ~> (pc[t] = "respond" /\ job[t] # 0)
    /\ [][\A t \in Threads :
             (pc[t] = "gen_acquire" /\ InModelCall(t)') =>
                 \A u \in Threads \ {t} :
                     pc[u] \notin {"loading", "in_cond", "cond_built", "in_gen"}]_vars

\* Two /api/tts/custom requests at once: one inside generate_custom_voice,
\* the other waiting for the gate.
C12_Witness ==
    \E t, u \in Threads :
        /\ pc[t] = "in_gen" /\ req[t].kind = "custom"
        /\ pc[u] = "gen_acquire" /\ req[u].kind = "custom"

\* C13: on every generation endpoint a request that is answered with a
\* validation error (status 400) has made no model call, each of which is
\* made under an acquisition of the gate.
C13_RejectedNeverReachedGate ==
    \A t \in Threads :
        (pc[t] = "rejected" /\ RejectStatus(req[t]) = 400) => calls[t] = 0

\* C14: on download, history audio and similarity, get_cached_audio is
\* entered only with an identifier of the 36-character canonical UUID shape.
C14_MalformedIdNeverLookedUp ==
    \A t \in Threads :
        (/\ pc[t] \in {"get_acquire", "get_body"}
         /\ req[t].kind \in {"download", "history_audio", "similarity"})
            => MatchesPattern(IdString(req[t]))

\* The age of cache entry e has passed the TTL at instant now, or the cache
\* c holds more than its capacity.
MayRemove(c, e, now) == Expired(e, now) \/ Len(c) > MAX_CACHED_AUDIO

\* C15: every cache entry holds the waveform and sample rate its request
\* generated; a download of J returns exactly them while J is in the cache
\* and not older than the TTL, and not-found otherwise; and an entry leaves
\* the cache only past its TTL or when the cache is over capacity.
C15_DownloadReturnsWhatWasGenerated ==
    /\ [](\A i \in 1 .. Len(generated_audio) :
             LET e == generated_audio[i] IN
                 /\ e.id \in 1 .. Len(made)
                 /\ [wav |-> e.wav, sr |-> e.sr] = made[e.id])
    /\ [][\A t \in Threads :
             (pc[t] = "get_body" /\ req[t].kind = "download" /\ pc'[t] # "get_body") =>
                 LET J == req[t].id
                     fresh == \E i \in 1 .. Len(generated_audio) :
                                  /\ generated_audio[i].id = J
                                  /\ ~Expired(generated_audio[i], clock)
                 IN  IF fresh
                     THEN got'[t] = "found" /\ entry'[t] = made[J]
                     ELSE got'[t] = "notfound" /\ entry'[t] = NoAudio]_vars
    /\ [][\A i \in 1 .. Len(generated_audio) :
             LET e == generated_audio[i] IN
                 e.id \notin Ids(generated_audio') =>
                     \E t \in Threads :
                         \/ /\ pc[t] = "put_sweep"
                            /\ MayRemove(generated_audio, e, put_now[t])
                            /\ put_now[t] <= clock
                         \/ /\ pc[t] = "get_body"
                            /\ Expired(e, clock)]_vars

\* A download has returned the two-sample recording at rate 20 while the
\* newest entry of the cache is another recording, at rate 10.
C15_Witness ==
    \E t \in Threads :
        /\ pc[t] = "respond" /\ req[t].kind = "download"
        /\ got[t] = "found"
        /\ entry[t] = [wav |-> Wave(2), sr |-> 20]
        /\ Len(generated_audio) = 2
        /\ generated_audio[1].id = req[t].id
        /\ generated_audio[2].sr = 10

RECURSIVE SumSeq(_)
SumSeq(s) == IF s = << >> THEN 0 ELSE Head(s) + SumSeq(Tail(s))

\* Positions of the items of kind type in a streaming response o.
Items(o, type) == {i \in 1 .. Len(o) : o[i].type = type}

\* The PCM bytes a streaming response o has carried, in order.
RECURSIVE PcmOf(_)
PcmOf(o) ==
    IF o = << >> THEN << >>
    ELSE (IF Head(o).type = "chunk" THEN Head(o).data ELSE << >>) \o PcmOf(Tail(o))

IsPrefix(s, w) == Len(s) <= Len(w) /\ s = SubSeq(w, 1, Len(s))

\* C16: a streaming response never holds a header anywhere but first, and
\* one that carries audio holds exactly one, 44 bytes long, with the RIFF
\* size at its maximum and the sample rate of the audio, before every chunk.
C16_HeaderOnceBeforeAudio ==
    \A t \in Threads :
        /\ Items(out[t], "header") \subseteq {1}
        /\ Items(out[t], "chunk") # {} =>
              /\ Items(out[t], "header") = {1}
              /\ SumSeq(out[t][1].data.widths) = 44
              /\ out[t][1].data.riff_size = <<65535, 65535>>
              /\ out[t][1].data.sample_rate = audio[t].sr

\* A stream at rate 10 that has sent its header and two chunks and is not
\* finished.
C16_Witness ==
    \E t \in Threads :
        /\ pc[t] = "stream"
        /\ Len(out[t]) = 3
        /\ Items(out[t], "chunk") = {2, 3}
        /\ Consumed(t) < Len(audio[t].wav)

\* C17: the JOB_ID marker is the last item of its response and follows
\* every chunk of the waveform; it carries the id under which the put has
\* completed, and on completion of that put the cache holds the full
\* concatenated audio under that id.
C17_JobMarkerAfterPut ==
    /\ [](\A t \in Threads : \A i \in Items(out[t], "job") :
             /\ i = Len(out[t])
             /\ out[t][i].data = job[t]
             /\ Consumed(t) = Len(audio[t].wav)
             /\ Items(out[t], "chunk") = 2 .. (i - 1)
             /\ job[t] \in 1 .. Len(made)
             /\ made[job[t]] = [wav |-> Concat(all_chunks[t]), sr |-> audio[t].sr])
    /\ [][\A t \in Threads :
             /\ Items(out'[t], "job") # Items(out[t], "job") =>
                    pc[t] = "marker" \/ pc'[t] = "idle"
             /\ (pc'[t] = "marker" /\ pc[t] # "marker") =>
                    /\ pc[t] = "put_sweep"
                    /\ audio_cache_lock' # t
                    /\ job[t] \in Ids(generated_audio')
                    /\ LET e == generated_audio'[Pos(generated_audio', job[t])] IN
                           /\ e.wav = Concat(all_chunks[t])
                           /\ e.sr = audio[t].sr]_vars

\* A stream of three samples in three chunks has ended with its marker, the
\* recording of the other stream being in the cache too.
C17_Witness ==
    \E t \in Threads :
        /\ pc[t] = "respond"
        /\ Len(out[t]) = 5
        /\ out[t][5].type = "job"
        /\ Len(generated_audio) = 2
        /\ \E i \in 1 .. 2 :
              /\ generated_audio[i].id = out[t][5].data
              /\ generated_audio[i].wav = Wave(3)

\* C18: a stream whose generation raised ends with the ERROR marker, never
\* carries a JOB_ID marker and hands nothing to the cache; no stream holds
\* both markers; and what a response has yielded is never taken back.
C18_ErrorMarkerNothingStored ==
    /\ [](\A t \in Threads :
             /\ (req[t].kind \in StreamKinds /\ raised[t] # "none") =>
                    /\ Items(out[t], "job") = {}
                    /\ job[t] = 0
                    /\ pc[t] \in {"raised", "respond"}
                    /\ pc[t] = "respond" =>
                           Items(out[t], "error") = {Len(out[t])}
             /\ Items(out[t], "job") = {} \/ Items(out[t], "error") = {})
    /\ [][\A t \in Threads :
             /\ pc'[t] # "idle" => IsPrefix(out[t], out'[t])
             /\ (/\ req[t].kind \in StreamKinds
                 /\ raised[t] # "none" \/ raised'[t] # "none"
                 /\ pc'[t] # pc[t]) =>
                    UNCHANGED <<generated_audio, made>>]_vars

\* One stream has ended with the ERROR marker alone while the recording of
\* the other is in the cache.
C18_Witness ==
    \E t \in Threads :
        /\ pc[t] = "respond" /\ raised[t] = "model"
        /\ Len(out[t]) = 1 /\ out[t][1].type = "error"
        /\ generated_audio # << >>

Failed(t) == pc[t] \in {"rejected", "raised"} \/ raised[t] # "none"

\* C20: a request that fails (a validation error, a reference that is not
\* found, a model exception, also on a later segment of a dialogue) has
\* never called _cache_audio and its steps leave the cache as it was; a
\* request that has called _cache_audio no longer fails; and the cache
\* changes only in the put of a request that has not failed.
C20_FailedRequestStoresNothing ==
    /\ [](\A t \in Threads : Failed(t) => job[t] = 0)
    /\ [][/\ \A t \in Threads :
                /\ ((Failed(t) \/ Failed(t)') /\ pc'[t] # pc[t]) =>
                       UNCHANGED <<generated_audio, made>>
                /\ job[t] # 0 => ~Failed(t)'
          /\ generated_audio' # generated_audio =>
                \E t \in Threads :
                    /\ pc[t] \in {"cache_acquire", "put_sweep"}
                    /\ ~Failed(t) /\ job[t] # 0]_vars

\* A dialogue whose second segment made the model raise, after its first
\* segment was generated, while the cache holds the other request's audio.
C20_Witness ==
    \E t \in Threads :
        /\ pc[t] = "raised" /\ req[t].kind = "dialogue"
        /\ calls[t] = 2 /\ audio[t].wav # << >>
        /\ job[t] = 0
        /\ Len(generated_audio) = 1


(* ------------------------------------------------------------------------ *)
(* parse_ssml                                                               *)
(* ------------------------------------------------------------------------ *)
ParsedOk == result # NoResult /\ result.of = "parse_ssml" /\ ~result.ret.raised

RECURSIVE ElementAt(_, _)
ElementAt(element, path) ==
    IF path = << >> THEN element
    ELSE ElementAt(element.children[Head(path)], Tail(path))

RECURSIVE SourcesUnder(_, _)
\* The places of a tree that give a segment: an element's own text, a
\* break, the tail text behind an element.
SourcesUnder(element, path) ==
    IF element.tag = "break" THEN {[path |-> path, part |-> "break"]}
    ELSE (IF element.text # "" THEN {[path |-> path, part |-> "text"]} ELSE {})
         \cup UNION {
             SourcesUnder(element.children[j], Append(path, j))
             \cup (IF element.children[j].tail # ""
                   THEN {[path |-> Append(path, j), part |-> "tail"]} ELSE {}) :
             j \in 1 .. Len(element.children)}

RECURSIVE Walk(_, _, _)
\* The context at the element at path: the overrides of the elements on
\* the way down to it, the outermost first, and its own.
Walk(element, path, context) ==
    LET own == ContextOf(element, context) IN
    IF path = << >> THEN own
    ELSE Walk(element.children[Head(path)], Tail(path), own)

Front(path) == SubSeq(path, 1, Len(path) - 1)

\* The text and the context a source should give its segment.
TextAt(root, src) ==
    IF src.part = "tail" THEN ElementAt(root, src.path).tail
    ELSE ElementAt(root, src.path).text

ContextAt(root, src) ==
    IF src.part = "tail" THEN Walk(root, Front(src.path), RootContext)
    ELSE Walk(root, src.path, RootContext)

Carries(seg, context) ==
    /\ seg.speaker = context.speaker
    /\ seg.language = context.language
    /\ seg.instruct = context.instruct
    /\ seg.prosody = context.prosody

\* The speech segments of the result that come from source src.
SegmentsOf(src) ==
    {i \in 1 .. Len(result.ret.segments) :
        /\ result.ret.segments[i].type = "speech"
        /\ result.ret.segments[i].text = TextAt(RootOf(input.doc), src)}

\* C22: every segment that comes from an element with an earlier sibling,
\* or from below such an element, carries the context made of the overrides
\* of its own ancestors and itself alone: nothing of the earlier sibling.
C22_SiblingContextDoesNotLeak ==
    ParsedOk =>
        \A src \in SourcesUnder(RootOf(input.doc), << >>) :
            (/\ src.part # "break"
             /\ \E k \in 1 .. Len(src.path) : src.path[k] > 1) =>
                /\ SegmentsOf(src) # {}
                /\ \A i \in SegmentsOf(src) :
                      Carries(result.ret.segments[i],
                              ContextAt(RootOf(input.doc), src))

\* <speak>t<voice name="V1">t1</voice><emphasis level="reduced">t2</emphasis>
\* </speak>: the second child's text is spoken by nobody in particular.
C22_Witness ==
    /\ ParsedOk
    /\ Len(input.doc.children) = 2
    /\ input.doc.children[1].tag = "voice"
    /\ input.doc.children[2].tag = "emphasis"
    /\ \E i \in 1 .. Len(result.ret.segments) :
          /\ result.ret.segments[i].type = "speech"
          /\ result.ret.segments[i].text = "t2"
          /\ result.ret.segments[i].speaker = "None"
          /\ result.ret.segments[i].instruct = "speak softly and understated"

RECURSIVE LexLess(_, _)
LexLess(a, b) ==
    IF a = << >> THEN b # << >>
    ELSE IF b = << >> THEN FALSE
    ELSE IF Head(a) # Head(b) THEN Head(a) < Head(b)
    ELSE LexLess(Tail(a), Tail(b))

\* Where a source stands in the document: an element's text and a break
\* before everything below the element, a tail behind it.
PlaceOf(src) ==
    Append(src.path, IF src.part = "tail" THEN MaxNodes + 2 ELSE 0)

RECURSIVE InDocumentOrder(_)
InDocumentOrder(srcs) ==
    IF srcs = {} THEN << >>
    ELSE LET first == CHOOSE s \in srcs :
                          \A o \in srcs \ {s} : LexLess(PlaceOf(s), PlaceOf(o))
         IN  <<first>> \o InDocumentOrder(srcs \ {first})

\* What tells a segment from the others: its text, or that it is a break.
LabelOf(seg) == IF seg.type = "speech" THEN seg.text ELSE "break"

\* C23: the segments of a document are those of its sources in document
\* order, and the three-element example compiles to Speech(A), Break(500),
\* Speech(B) and nothing else.
C23_SegmentsInDocumentOrder ==
    ParsedOk =>
        /\ LET order == InDocumentOrder(SourcesUnder(RootOf(input.doc), << >>)) IN
              /\ Len(result.ret.segments) = Len(order)
              /\ \A i \in 1 .. Len(order) :
                    LabelOf(result.ret.segments[i]) =
                        (IF order[i].part = "break" THEN "break"
                         ELSE TextAt(RootOf(input.doc), order[i]))
        /\ input.doc = ExampleDoc =>
              result.ret.segments =
                  <<Speech("Hi", [RootContext EXCEPT !.speaker = "A"]),
                    Break(500),
                    Speech("Bye", [RootContext EXCEPT !.speaker = "B"])>>

\* The example document has been compiled.
C23_Witness ==
    /\ ParsedOk
    /\ input.doc = ExampleDoc
    /\ Len(result.ret.segments) = 3

\* C24: no document that is well-formed makes parse_ssml raise, whatever
\* its break elements give as time (the documents' other attributes all
\* convert); a time that does not convert gives a break of 500 ms.
C24_BreakTimeNeverRaises ==
    (result # NoResult /\ result.of = "parse_ssml" /\ input.doc.parses) =>
        /\ ~result.ret.raised
        /\ \A src \in SourcesUnder(RootOf(input.doc), << >>) :
              (/\ src.part = "break"
               /\ _parse_time_ms(ElementAt(RootOf(input.doc), src.path)
                                     .attrs["time"]).raised) =>
                  \E i \in 1 .. Len(result.ret.segments) :
                      result.ret.segments[i] = Break(500)

\* C30: the segment of a tail text carries the context of the element that
\* encloses the child it follows, not the child's.
C30_TailCarriesParentContext ==
    ParsedOk =>
        \A src \in SourcesUnder(RootOf(input.doc), << >>) :
            src.part = "tail" =>
                /\ SegmentsOf(src) # {}
                /\ \A i \in SegmentsOf(src) :
                      Carries(result.ret.segments[i],
                              Walk(RootOf(input.doc), Front(src.path), RootContext))

\* <speak>t<prosody rate="slow">t1<voice name="V11">t11</voice>a11</prosody>
\* </speak>: a11 is spoken slowly by nobody in particular, right behind
\* t11, which V11 speaks.
C30_Witness ==
    /\ ParsedOk
    /\ \E i \in 2 .. Len(result.ret.segments) :
          /\ result.ret.segments[i].type = "speech"
          /\ result.ret.segments[i].text = "a11"
          /\ result.ret.segments[i].speaker = "None"
          /\ result.ret.segments[i].prosody = ("speed" :> 750)
          /\ result.ret.segments[i - 1].type = "speech"
          /\ result.ret.segments[i - 1].speaker = "V11"

(* ------------------------------------------------------------------------ *)
(* Generation parameters                                                    *)
(* ------------------------------------------------------------------------ *)
Extracted == result # NoResult /\ result.of = "params"

\* The closed interval the route's family gives a field it accepts.
IntervalOf(family, field) ==
    LET fields == IF family = "chatterbox"
                  THEN ChatterboxExtras
                       \o << [name |-> "exaggeration", lo |-> 0, hi |-> MAX_EXAGGERATION],
                             [name |-> "cfg_weight", lo |-> 0, hi |-> 1000],
                             [name |-> "temperature", lo |-> 50, hi |-> 2000] >>
                  ELSE InferenceFields
    IN  {[lo |-> fields[i].lo, hi |-> fields[i].hi] :
            i \in {j \in 1 .. Len(fields) : fields[j].name = field}}

\* The request gives the field a number outside the interval.
OutOfRange(family, body, field) ==
    /\ Present(body, field)
    /\ ~(IF family = "qwen" /\ field = "top_k"
         THEN ToInt(body[field]).raised ELSE ToFloat(body[field]).raised)
    /\ \E iv \in IntervalOf(family, field) :
          LET v == IF family = "qwen" /\ field = "top_k"
                   THEN ToInt(body[field]).value ELSE ToFloat(body[field]).value
          IN  ~(LessEq(iv.lo, v) /\ LessEq(v, iv.hi))

Processed == result # NoResult /\ result.of = "post"

\* The option is absent (or null), or inside the band in which its stage
\* does nothing.
InIdentityBand(options, sr, key) ==
    \/ key \notin DOMAIN options
    \/ options[key].form = "null"
    \/ /\ key = "pitch_shift"
       /\ options[key].form = "num"
       /\ Abs(options[key].n) < 10
    \/ /\ key = "speed"
       /\ options[key].form = "num"
       /\ Abs(options[key].n - 1000) < 10
    \/ /\ key = "volume_normalize"
       /\ options[key] = False
    \/ /\ key = "sample_rate"
       /\ options[key] = Num(sr * 1000)

\* C29: apply_post_processing returns the waveform and the rate it was
\* given when the option set is empty and when every option is absent or
\* inside its identity band.
C29_IdentityInsideBands ==
    Processed =>
        ((\A key \in OptionKeys : InIdentityBand(input.options, input.sr, key))
            => result.ret = Audio(input.wav, input.sr))

\* A call with pitch_shift 0.005, speed 1.009, volume_normalize false and
\* the current rate as sample_rate has returned a waveform of two samples.
C29_Witness ==
    /\ Processed
    /\ DOMAIN input.options = OptionKeys
    /\ input.options["pitch_shift"] = Num(5)
    /\ input.options["speed"] = Num(1009)
    /\ input.options["volume_normalize"] = False
    /\ input.options["sample_rate"] = Num(input.sr * 1000)
    /\ Len(input.wav) = 2
    /\ result.ret = Audio(input.wav, input.sr)

(* ------------------------------------------------------------------------ *)
(* The dialogue endpoint                                                    *)
(* ------------------------------------------------------------------------ *)
\* The thread serves a dialogue request whose document cannot be parsed.
BadDocument(t) ==
    /\ data[t].of = "dialogue"
    /\ data[t].ssml # << >>
    /\ ~data[t].ssml[1].parses

\* C21: parse_ssml raises on a document that cannot be parsed and returns
\* no segment; the dialogue request that carries it gets no further than
\* the answer 400: it makes no model call, hands nothing to _cache_audio,
\* and its steps leave the cache as it was.
C21_UnparsableDocumentRejected ==
    /\ [](\A t \in Threads : BadDocument(t) =>
            /\ parse_ssml(data[t].ssml[1]) = [raised |-> TRUE, segments |-> << >>]
            /\ pc[t] \in {"dlg_parse", "rejected"}
            /\ pc[t] = "rejected" => RejectStatus(req[t]) = 400
            /\ calls[t] = 0 /\ segments[t] = << >> /\ all_audio[t] = << >>
            /\ job[t] = 0)
    /\ [][\A t \in Threads :
              (BadDocument(t) /\ pc'[t] # pc[t]) =>
                  UNCHANGED <<generated_audio, made, gpu0_lock>>]_vars

\* The request with the unparsable document is about to be answered 400,
\* while the cache holds the audio of the other client's request.
C21_Witness ==
    \E t \in Threads :
        /\ BadDocument(t)
        /\ pc[t] = "rejected"
        /\ Len(generated_audio) = 1

\* The elements of all_audio that a model call made.
Spoken(pieces) == {i \in 1 .. Len(pieces) : pieces[i].call # 0}

\* C25: the elements of all_audio stand in the order of the segments they
\* come from; the k-th element that holds generated audio was made by the
\* k-th model call of the request, for a later segment than the one before
\* it; a model call starts only when the audio of the call before it has
\* been appended; and the combined audio is the concatenation of the
\* elements in that order.
C25_SegmentsGeneratedAndJoinedInOrder ==
    \A t \in Threads :
        data[t].of = "dialogue" =>
            LET pieces == all_audio[t] IN
            /\ \A i, j \in 1 .. Len(pieces) : i < j => pieces[i].seg <= pieces[j].seg
            /\ \A i \in Spoken(pieces) :
                  /\ pieces[i].call = Cardinality({j \in Spoken(pieces) : j <= i})
                  /\ segments[t][pieces[i].seg].type = "speech"
                  /\ \A j \in Spoken(pieces) : j < i => pieces[j].seg < pieces[i].seg
            /\ calls[t] <= Cardinality(Spoken(pieces)) + 1
            /\ (pc[t] = "cache_begin"
                /\ _extract_post_processing(data[t].fields).params = << >>)
                  => audio[t].wav = Concat(Waves(pieces))

\* A dialogue of two speech segments with a break between them is about to
\* be cached: its audio is that of the first call, silence, that of the
\* second call.
C25_Witness ==
    \E t \in Threads :
        /\ data[t].of = "dialogue"
        /\ pc[t] = "cache_begin"
        /\ Cardinality(Spoken(all_audio[t])) = 2
        /\ Len(all_audio[t]) >= 3
        /\ all_audio[t][1].call = 1
        /\ all_audio[t][2].call = 0 /\ all_audio[t][2].wav # << >>
        /\ all_audio[t][Len(all_audio[t])].call = 2
        /\ all_audio[t][1].wav # all_audio[t][Len(all_audio[t])].wav
        /\ audio[t].wav = Concat(Waves(all_audio[t]))

\* The values of an option set lie in the documented ranges.
InDocumentedRanges(options) ==
    /\ "pitch_shift" \in DOMAIN options =>
          /\ options["pitch_shift"].form = "num"
          /\ 0 - 12000 <= options["pitch_shift"].n /\ options["pitch_shift"].n <= 12000
    /\ "speed" \in DOMAIN options =>
          /\ options["speed"].form = "num"
          /\ 500 <= options["speed"].n /\ options["speed"].n <= 2000
    /\ "volume_normalize" \in DOMAIN options =>
          \/ options["volume_normalize"].form = "bool"
          \/ /\ options["volume_normalize"].form = "num"
             /\ 0 - 24000 <= options["volume_normalize"].n
             /\ options["volume_normalize"].n <= 0 - 6000
    /\ "sample_rate" \in DOMAIN options =>
          /\ options["sample_rate"].form = "num"
          /\ (options["sample_rate"].n \div 1000) \in VALID_SAMPLE_RATES

\* C27: whenever a dialogue request is about to call apply_post_processing,
\* for a segment's prosody inside generate_custom or for the request-level
\* options on the combined audio, every value of the option set lies in
\* the documented ranges.
C27_PostOptionsInRange ==
    \A t \in Threads :
        data[t].of = "dialogue" =>
            /\ (pc[t] = "post_locked" /\ PostProcessing(t) # << >>)
                  => InDocumentedRanges(PostProcessing(t))
            /\ (pc[t] = "dlg_segment" /\ left[t] = 0 /\ all_audio[t] # << >>)
                  => InDocumentedRanges(_extract_post_processing(data[t].fields).params)

(* ------------------------------------------------------------------------ *)
(* Reference audio                                                          *)
(* ------------------------------------------------------------------------ *)
\* An identifier that passes the shape check and has a file.
Resolves(audio_id) == is_valid_audio_id(IdString(audio_id)) /\ Exists(audio_id)

\* Every identifier the body supplies, in ref_audio_ids or in ref_audio_id.
Supplied(body) ==
    {body.ref_audio_ids.ids[i] : i \in 1 .. Len(body.ref_audio_ids.ids)}
    \cup {body.ref_audio_id[i] : i \in 1 .. Len(body.ref_audio_id)}

\* The request has got past the reference check and has not been rejected.
PastRefs(t) == data[t].of = "refs" /\ pc[t] \notin {"resolve_refs", "rejected"}

\* C28 as stated: a request that supplies an identifier that fails the
\* shape check or has no file gets no further than its rejection and makes
\* no model call, and a request that gets further hands every identifier it
\* supplied to the service.
C28_NoReferenceDropped ==
    \A t \in Threads :
        data[t].of = "refs" =>
            /\ (\E audio_id \in Supplied(data[t]) : ~Resolves(audio_id)) =>
                  /\ pc[t] \in {"resolve_refs", "rejected"}
                  /\ calls[t] = 0
            /\ PastRefs(t) =>
                  \A audio_id \in Supplied(data[t]) :
                      \E i \in 1 .. Len(ref_audio_paths[t]) :
                          ref_audio_paths[t][i] = audio_id


(* ------------------------------------------------------------------------ *)
(* Nested prosody                                                           *)
(* ------------------------------------------------------------------------ *)
\* The attribute of a prosody element that sets a field of the record.
ProsodyAttr == [speed |-> "rate", pitch_shift |-> "pitch", volume_normalize |-> "volume"]

\* The value a prosody element's attribute gives its field.
ProsodyValue(element, field) ==
    CASE field = "speed" -> _parse_rate(element.attrs["rate"]).value
      [] field = "pitch_shift" -> _parse_pitch(element.attrs["pitch"])
      [] field = "volume_normalize" -> _parse_volume(element.attrs["volume"])

\* The path of the element whose context a source's segment is made in.
ScopeOf(src) == IF src.part = "tail" THEN Front(src.path) ELSE src.path

\* The depths, on the way from the root to the scope of src, of the prosody
\* elements that set the field.
Setters(root, src, field) ==
    {k \in 1 .. Len(ScopeOf(src)) :
        LET element == ElementAt(root, SubSeq(ScopeOf(src), 1, k)) IN
        element.tag = "prosody" /\ Has(element, ProsodyAttr[field])}

\* C31: the prosody record of a speech segment holds, for each field, the
\* value of the innermost enclosing prosody element that sets the field,
\* and lacks the field when none sets it: an inner element inherits what
\* it does not set and overrides what it sets, and text of the outer
\* element behind the inner one (the inner one's tail) has the outer values.
C31_NestedProsodyInheritsAndOverrides ==
    ParsedOk =>
        \A src \in SourcesUnder(RootOf(input.doc), << >>) :
            src.part # "break" =>
                \A i \in SegmentsOf(src) :
                    \A field \in DOMAIN ProsodyAttr :
                        LET set == Setters(RootOf(input.doc), src, field)
                            prosody == result.ret.segments[i].prosody
                        IN  IF set = {}
                            THEN field \notin DOMAIN prosody
                            ELSE /\ field \in DOMAIN prosody
                                 /\ LET k == CHOOSE k \in set : \A o \in set : o <= k
                                    IN  prosody[field] =
                                          ProsodyValue(
                                              ElementAt(RootOf(input.doc),
                                                        SubSeq(ScopeOf(src), 1, k)),
                                              field)

\* <prosody pitch="2st" rate="150%">t2<prosody rate="slow">t21</prosody>a21
\* </prosody> as the second child: t21 is slow at the outer pitch, and a21
\* behind it has the outer rate again.
C31_Witness ==
    /\ ParsedOk
    /\ \E i, j \in 1 .. Len(result.ret.segments) :
          /\ i < j
          /\ result.ret.segments[i].type = "speech"
          /\ result.ret.segments[j].type = "speech"
          /\ result.ret.segments[i].text = "t21"
          /\ result.ret.segments[j].text = "a21"
          /\ result.ret.segments[i].prosody =
                ("speed" :> rate_map["slow"]) @@ ("pitch_shift" :> 2000)
          /\ result.ret.segments[j].prosody =
                ("speed" :> 1500) @@ ("pitch_shift" :> 2000)

(* ------------------------------------------------------------------------ *)
(* The order of the post-processing stages                                  *)
(* ------------------------------------------------------------------------ *)
\* The library calls of apply_post_processing in the order of its source.
StageOrder == <<"pitch_shift", "time_stretch", "normalize_volume", "resample_audio">>

StagePlace(stage) == CHOOSE k \in 1 .. Len(StageOrder) : StageOrder[k] = stage

\* The rate the options ask for (0: none that converts).
RequestedRate(options) ==
    IF "sample_rate" \in DOMAIN options /\ ~ToInt(options["sample_rate"]).raised
    THEN ToInt(options["sample_rate"]).value \div 1000
    ELSE 0

\* C32: the stages a call of apply_post_processing ran are some of pitch
\* shift, time stretch, loudness normalization, resample, in this order and
\* each at most once; the resample ran only when the requested rate is not
\* the rate of the audio and is one of the supported rates.
C32_StagesInFixedOrder ==
    Processed =>
        LET ran == result.ret.ran IN
        /\ \A i \in 1 .. Len(ran) : \E k \in 1 .. Len(StageOrder) : ran[i] = StageOrder[k]
        /\ \A i, j \in 1 .. Len(ran) :
              i < j => StagePlace(ran[i]) < StagePlace(ran[j])
        /\ (\E i \in 1 .. Len(ran) : ran[i] = "resample_audio") =>
              /\ RequestedRate(input.options) # input.sr
              /\ RequestedRate(input.options) \in VALID_SAMPLE_RATES

\* A call with a pitch shift of 2 semitones, a speed of 0.5, a loudness
\* target and another supported rate has run all four stages.
C32_Witness ==
    /\ Processed
    /\ ~result.ret.raised
    /\ result.ret.ran = StageOrder
    /\ result.ret.sr # input.sr

(* ------------------------------------------------------------------------ *)
(* Streams and their clients                                                *)
(* ------------------------------------------------------------------------ *)
\* Where a thread is inside a `with gpu0_lock:` block of a generate method.
InGateBlock(t) == pc[t] \in {"in_cond", "cond_built", "in_gen"}

\* C33: a thread that serves a stream holds the gate only inside the
\* `with` block around its model calls: not in the post-processing, not
\* while its generator is suspended at a yield, not after the client went
\* away; and whenever a stream is suspended at a yield, a request that
\* waits for the gate can take it.
C33_GateFreeWhileStreaming ==
    \A t \in Threads :
        /\ (req[t].kind \in StreamKinds /\ ~InGateBlock(t)) => gpu0_lock # t
        /\ (Suspended(t) \/ pc[t] \in {"post", "closed"}) =>
              \A u \in Threads \ {t} :
                  pc[u] = "gen_acquire" => ENABLED GenAcquire(u)

\* One stream has written its header and not yet its last chunk, and no
\* step of its thread is needed for the other request to be inside the
\* gate with its model call.
C33_Witness ==
    \E t, u \in Threads :
        /\ t # u
        /\ Suspended(t) /\ pc[t] = "stream"
        /\ Consumed(t) < Len(audio[t].wav)
        /\ gpu0_lock = u /\ pc[u] = "in_gen"

\* The terminal markers of a streaming response.
Markers(o) == Items(o, "job") \cup Items(o, "error")

\* C34: a streaming response whose generator has run to its end, the
\* client still reading, holds exactly one terminal marker, JOB_ID or
\* ERROR, as its last item, whatever waveform the model returned.
C34_OneTerminalMarker ==
    \A t \in Threads :
        (req[t].kind \in StreamKinds /\ pc[t] = "respond") =>
            /\ Cardinality(Markers(out[t])) = 1
            /\ Markers(out[t]) = {Len(out[t])}

\* The client of the thread's stream has gone away.
Gone(t) == raised[t] = "GeneratorExit"

\* C35: once the client of a stream has gone away the response gets no
\* further item, and no step of the request touches the cache; a response
\* cut off before its marker has handed nothing to the cache, and a
\* stream reaches _cache_audio only when every chunk of its waveform has
\* been yielded.
C35_DisconnectEndsStream ==
    /\ [](\A t \in Threads :
             /\ Gone(t) =>
                   /\ pc[t] = "closed"
                   /\ Markers(out[t]) = {} => job[t] = 0
             /\ (req[t].kind \in StreamKinds /\ job[t] # 0) =>
                   /\ Consumed(t) = Len(audio[t].wav)
                   /\ Cardinality(Items(out[t], "chunk")) = Len(all_chunks[t])
                   /\ all_chunks[t] # << >>)
    /\ [][\A t \in Threads :
             /\ (Gone(t) \/ Gone(t)') /\ pc'[t] # pc[t] =>
                   /\ UNCHANGED <<generated_audio, made, nextJob>>
                   /\ out'[t] = out[t] \/ pc'[t] = "idle"]_vars

\* The client went away after the header and the first of two chunks,
\* while the cache holds the recording of the other stream and nothing of
\* this one.
C35_Witness ==
    \E t \in Threads :
        /\ pc[t] = "closed"
        /\ Len(out[t]) = 2
        /\ Len(audio[t].wav) = 2
        /\ Consumed(t) = 1
        /\ job[t] = 0
        /\ Len(generated_audio) = 1
        /\ Len(made) = 1

(* ------------------------------------------------------------------------ *)
(* The audio cache: put                                                     *)
(* ------------------------------------------------------------------------ *)
\* C37: the entries of the cache stand in the order of their timestamps:
\* none has a later timestamp than one behind it in eviction order, so the
\* capacity eviction, which takes from the front, never removes an entry
\* newer than one it keeps.
C37_EvictionOrderFollowsTimestamps ==
    \A i, j \in 1 .. Len(generated_audio) :
        i < j => generated_audio[i].ts <= generated_audio[j].ts

\* A call of _cache_audio has returned.
PutReturned == result # NoResult /\ result.of = "put"

\* C36: when _cache_audio returns, the cache holds the id exactly once,
\* with the waveform and the rate of the call and the time the call read
\* on entry, whether the id was in the cache before or not: neither the
\* sweep nor the capacity eviction of the call has removed it.
C36_PutLeavesItsEntry ==
    PutReturned =>
        /\ Cardinality({i \in 1 .. Len(result.ret) :
                            result.ret[i].id = input.id}) = 1
        /\ \E i \in 1 .. Len(result.ret) :
              result.ret[i] = [id |-> input.id, ts |-> input.now,
                               wav |-> input.a.wav, sr |-> input.a.sr]

\* A put over an id that stood first in a full cache of older entries, with
\* another waveform: the entry is there with the new audio and time.
C36_Witness ==
    /\ PutReturned
    /\ Len(input.c) = MAX_CACHED_AUDIO
    /\ input.c[1].id = input.id
    /\ input.c[1].ts < input.now
    /\ input.a.wav # input.c[1].wav
    /\ \E i \in 1 .. Len(result.ret) :
          /\ result.ret[i].id = input.id
          /\ result.ret[i].wav = input.a.wav
          /\ result.ret[i].ts = input.now

(* ------------------------------------------------------------------------ *)
(* Breaks of a dialogue                                                     *)
(* ------------------------------------------------------------------------ *)
\* The elements of the combined audio that come from segment s.
PiecesOf(t, s) == {i \in 1 .. Len(all_audio[t]) : all_audio[t][i].seg = s}

\* C38: in the audio a dialogue request combines, every break segment
\* stands as silence of its duration at the rate of the dialogue, between
\* the audio of the segments before it and of those behind it: also a
\* break in front of the first speech segment and a break as the last
\* segment.
C38_EveryBreakIsSilence ==
    \A t \in Threads :
        (/\ data[t].of = "dialogue"
         /\ pc[t] = "cache_begin"
         /\ _extract_post_processing(data[t].fields).params = << >>) =>
            \A s \in 1 .. Len(segments[t]) :
                segments[t][s].type = "break" =>
                    /\ Cardinality(PiecesOf(t, s)) = 1
                    /\ \A i \in PiecesOf(t, s) :
                          /\ all_audio[t][i].call = 0
                          /\ AllZero(all_audio[t][i].wav)
                          /\ Len(all_audio[t][i].wav) =
                                (sample_rate[t] * segments[t][s].duration_ms) \div 1000

\* The service whose model object a step of thread t invokes ("none": the
\* step invokes no model): generate_* and create_voice_clone_prompt of the
\* Qwen and Chatterbox services, self.model(...) of enhance_file.
Invoked(t) ==
    IF calls'[t] = calls[t] + 1 THEN ServiceOf(req[t].kind)
    ELSE IF pc[t] = "cv_acquire" /\ pc'[t] # "cv_acquire" THEN "cv"
    ELSE "none"

\* C39: a model object is invoked only when the loaded flag of its service
\* is true, on a preloaded server and on one started with --no-preload.
C39_ModelInvokedOnlyWhenLoaded ==
    [][\A t \in Threads : Invoked(t) # "none" => loaded[Invoked(t)]]_vars

\* C40: the history never holds more than MAX_HISTORY items, add_history
\* drops the oldest items first, and every item of the history whose audio
\* was persisted when it was added has its file in the history directory.
C40_HistoryBoundedAndFilesKept ==
    /\ [](Len(history) <= MAX_HISTORY)
    /\ [][\A t \in Threads :
             pc[t] = "hist_body" /\ pc'[t] # "hist_body" =>
                 \E k \in 0 .. Len(history) :
                     history' = SubSeq(Append(history, Item(t)), k + 1,
                                       Len(history) + 1)]_vars
    /\ [](\A i \in 1 .. Len(history) :
             history[i].persisted => history[i].audio_id \in history_dir)
====
